---- MODULE Spec2Model ----
(***************************************************************************)
(* BVecInterp (src/src/bpmat/BVecInterp.c): a distributed block-sparse     *)
(* interpolation operator.  Every rank of the communicator holds one       *)
(* BVecInterp object; the fields of the object of rank r are the r-th      *)
(* components of the variables below.  C arrays are sequences, so the C    *)
(* element a[i] is At(a, i).  TacsScalar values are exact rationals        *)
(* <<numerator, denominator>>, which stand for the floating-point values   *)
(* up to rounding.  finalize and the four products are collective: one     *)
(* action performs the call on every rank.                                 *)
(***************************************************************************)
EXTENDS Integers, Sequences, FiniteSets, Bags, TLC

\* ------------------------------------------------------------------ bounds
\* largest number of addInterp calls made on all ranks together
MaxRows == 2
\* largest fan-in (argument size) of one addInterp call
MaxFanIn == 2
\* largest number of (variable, weight) entries staged in the assembly runs
MaxEntries == 3
\* largest number of entries staged in the runs that apply the operator
MaxApplyEntries == 2

\* largest number of rows and of columns of a matrix handed to a kernel
MaxKernelDim == 2
\* largest number of entries of a matrix handed to a kernel
MaxKernelEntries == 2

\* received rows and entries per received row handed to the CSR build
MaxBuildRows == 2

MaxBuildFanIn == 2

\* ----------------------------------------------------------- C array access
NULL == "NULL"
GARBAGE == "GARBAGE"
VECDIST == "VECDIST"
UNINIT == "UNINIT"

At(a, i) == a[i + 1]

Put(a, i, v) == [a EXCEPT ![i + 1] = v]

Fill(n, v) == [i \in 1..n |-> v]

\* the elements a[lo], .., a[hi-1]; none when hi <= lo
Slice(a, lo, hi) == [i \in 1..(IF hi > lo THEN hi - lo ELSE 0) |-> a[lo + i]]

\* for (i = 0, j = at; i < Len(s); i++, j++) a[j] = s[i], on an array that
\* has room for the entries
Store(a, at, s) ==
  [q \in 1..(IF at + Len(s) > Len(a) THEN at + Len(s) ELSE Len(a)) |->
     IF q - 1 >= at /\ q - 1 < at + Len(s) THEN s[q - at] ELSE a[q]]

RECURSIVE SumSeq(_)
SumSeq(s) == IF s = <<>> THEN 0 ELSE Head(s) + SumSeq(Tail(s))

\* ------------------------------------------------------ TacsScalar arithmetic
RECURSIVE Gcd(_, _)
Gcd(a, b) == IF b = 0 THEN a ELSE Gcd(b, a % b)

Abs(n) == IF n < 0 THEN -n ELSE n

RNorm(n, d) ==
  LET s == IF d < 0 THEN -1 ELSE 1
      g == Gcd(Abs(n), Abs(d))
  IN  <<(s * n) \div g, (s * d) \div g>>

RZero == <<0, 1>>

RInt(n) == <<n, 1>>

RAdd(a, b) == RNorm(a[1] * b[2] + b[1] * a[2], a[2] * b[2])

RMul(a, b) == RNorm(a[1] * b[1], a[2] * b[2])

RDiv(a, b) == RNorm(a[1] * b[2], a[2] * b[1])

RECURSIVE RSumSeq(_)
RSumSeq(s) == IF s = <<>> THEN RZero ELSE RAdd(Head(s), RSumSeq(Tail(s)))

\* --------------------------------------------------------------- index maps
\* A VarMap: communicator, block size and the owner range table.
World2 == [id |-> "world2", group |-> <<0, 1>>]
Dup2 == [id |-> "dup2", group |-> <<0, 1>>]
Swap2 == [id |-> "swap2", group |-> <<1, 0>>]
World3 == [id |-> "world3", group |-> <<0, 1, 2>>]

VarMap(c, b, range) == [comm |-> c, bsize |-> b, ownerRange |-> range]

\* <<input map, output map>> pairs handed to the constructor
Setups ==
  { <<VarMap(World2, 1, <<0, 1, 2>>), VarMap(Dup2, 1, <<0, 1, 2>>)>>,
    <<VarMap(World3, 1, <<0, 1, 1, 2>>), VarMap(World3, 1, <<0, 1, 1, 1>>)>> }

\* the pairs of the runs that apply the operator; the last two make the
\* constructor return early (block sizes differ, communicators only similar)
ApplySetups ==
  { <<VarMap(World2, 2, <<0, 1, 2>>), VarMap(Dup2, 2, <<0, 1, 2>>)>>,
    <<VarMap(World2, 1, <<0, 1, 2>>), VarMap(World2, 2, <<0, 1, 2>>)>>,
    <<VarMap(World2, 1, <<0, 1, 2>>), VarMap(Swap2, 1, <<0, 1, 2>>)>> }

\* weights offered to addInterp
Weights == {RInt(-1), RInt(1)}

MPI_Comm_compare(c1, c2) ==
  IF c1 = c2 THEN "MPI_IDENT"
  ELSE IF c1.group = c2.group THEN "MPI_CONGRUENT"
  ELSE IF {c1.group[i] : i \in DOMAIN c1.group} = {c2.group[i] : i \in DOMAIN c2.group}
       THEN "MPI_SIMILAR"
  ELSE "MPI_UNEQUAL"

VARIABLES
  inMap, outMap,          \* the two index maps given to the constructor
  bsize,                  \* block size
  comm,                   \* communicator recorded by the constructor
  staging,                \* what the eight staging pointers on_nums ..
                          \* off_weights hold: ALLOCATED, NULL or UNINIT
  on_size, on_nums, on_rowp, on_vars, on_weights,      \* local staging
  off_size, off_nums, off_rowp, off_vars, off_weights, \* remote staging
  vecDist,                \* halo exchange object: NULL, GARBAGE or VECDIST;
                          \* the arrays below exist when it is VECDIST
  rowp, cols, weights,    \* diag part
  ext_rowp, ext_cols, ext_weights,   \* offd part
  ext_vars, num_ext_vars, \* external variable table owned by vecDist
  x_ext,                  \* halo buffer
  err,                    \* messages written to stderr, counted by kind
  crashed,                \* the run has died (invalid memory access)
  call,                   \* the most recent product call: its arguments and
                          \* the vectors as the call left them
  fwd,                    \* history: argument and result of the latest mult,
                          \* kept while only multTranspose calls follow
  quota,                  \* entries the callers of addInterp may still stage
  staged,                 \* history: bag of all addInterp calls made
  incoming,               \* history: the arrays in_nums, in_weights_per_row,
                          \* in_vars, in_weights finalize received
  unnormalized,           \* history: weights and ext_weights as they were
                          \* when finalize reached the normalisation loop
  tally,                  \* history: per rank, the rows and entries the pack
                          \* loop wrote per destination and the value of k
                          \* at the end of each of the three build passes
  probe                   \* the arguments and results of the latest direct
                          \* call of a kernel or of the CSR build loops

opvars == <<vecDist, rowp, cols, weights, ext_rowp, ext_cols, ext_weights,
            ext_vars, num_ext_vars, x_ext>>

onvars == <<on_size, on_nums, on_rowp, on_vars, on_weights>>

offvars == <<off_size, off_nums, off_rowp, off_vars, off_weights>>

cfgvars == <<inMap, outMap, bsize, comm>>

histvars == <<staged, incoming, unnormalized, tally>>

callvars == <<call, fwd>>

vars == <<cfgvars, staging, onvars, offvars, opvars, err, crashed, callvars, quota,
          histvars, probe>>

\* ------------------------------------------------------ derived quantities
mpiSize == Len(outMap.comm.group)

Ranks == 0..(mpiSize - 1)

outOwnerRange == outMap.ownerRange

inOwnerRange == inMap.ownerRange

\* N = outMap->getDim(): the number of output rows rank r owns
N(r) == At(outOwnerRange, r + 1) - At(outOwnerRange, r)

M_out == At(outOwnerRange, mpiSize)

M_in == At(inOwnerRange, mpiSize)

\* the test  num >= outOwnerRange[mpiRank] && num < outOwnerRange[mpiRank+1]
OwnsOut(r, num) == num >= At(outOwnerRange, r) /\ num < At(outOwnerRange, r + 1)

\* the test  v >= inOwnerRange[mpiRank] && v < inOwnerRange[mpiRank+1]
OwnsIn(r, v) == v >= At(inOwnerRange, r) /\ v < At(inOwnerRange, r + 1)

\* ------------------------------------------------------------- constructor
ConstructOK(in, out) ==
  /\ in.bsize = out.bsize
  /\ MPI_Comm_compare(out.comm, in.comm) \in {"MPI_IDENT", "MPI_CONGRUENT"}

NoComm == [id |-> UNINIT, group |-> <<>>]

NoIncoming ==
  [in_size |-> 0, in_nums |-> <<>>, in_weights_per_row |-> <<>>,
   in_vars |-> <<>>, in_weights |-> <<>>, mpi |-> <<>>,
   in_count |-> <<>>, in_weights_count |-> <<>>]

NoWeights == [weights |-> <<>>, ext_weights |-> <<>>]

NoTally == [packed |-> <<>>, packed_weights |-> <<>>, k |-> <<>>]

NoErr == [construct |-> 0, range |-> 0]

\* A product call: the operation, the contents x of inVec, the names of
\* addVec and outVec among the caller's vectors Y and Z, those two vectors
\* before (pre) and after (post) the call, the halo exchange the call
\* started, the number of ranks that printed the usage message and, per
\* rank, the statements the call executed in their order (trace).
NoCall ==
  [op |-> "none", x |-> <<>>, addVec |-> "none", outVec |-> "none",
   pre |-> <<>>, post |-> <<>>, halo |-> "none", reported |-> 0, trace |-> <<>>]

NoFwd == [set |-> FALSE, x |-> <<>>, y |-> <<>>]

NoProbe == [op |-> "none"]

\* The state after BVecInterp::BVecInterp(in, out) ran on every rank.  When
\* the constructor returns early no field but inMap, outMap and bsize has
\* been assigned: the pointers hold whatever the allocation left there, so
\* vecDist may or may not compare equal to NULL.
InitProbe(S, q, pr) ==
  \E su \in S :
    LET in == su[1]
        out == su[2]
        R == 0..(Len(out.comm.group) - 1)
    IN
    /\ inMap = in
    /\ outMap = out
    /\ bsize = in.bsize
    /\ crashed = FALSE
    /\ call = NoCall
    /\ fwd = NoFwd
    /\ quota = q
    /\ probe = pr
    /\ staged = EmptyBag
    /\ incoming = [r \in R |-> NoIncoming]
    /\ unnormalized = [r \in R |-> NoWeights]
    /\ tally = [r \in R |-> NoTally]
    /\ on_size = [r \in R |-> 0]
    /\ on_nums = [r \in R |-> <<>>]
    /\ on_vars = [r \in R |-> <<>>]
    /\ on_weights = [r \in R |-> <<>>]
    /\ off_size = [r \in R |-> 0]
    /\ off_nums = [r \in R |-> <<>>]
    /\ off_vars = [r \in R |-> <<>>]
    /\ off_weights = [r \in R |-> <<>>]
    /\ rowp = [r \in R |-> <<>>]
    /\ cols = [r \in R |-> <<>>]
    /\ weights = [r \in R |-> <<>>]
    /\ ext_rowp = [r \in R |-> <<>>]
    /\ ext_cols = [r \in R |-> <<>>]
    /\ ext_weights = [r \in R |-> <<>>]
    /\ ext_vars = [r \in R |-> <<>>]
    /\ num_ext_vars = [r \in R |-> 0]
    /\ x_ext = [r \in R |-> <<>>]
    /\ IF ConstructOK(in, out)
       THEN /\ comm = in.comm
            /\ err = NoErr
            /\ staging = [r \in R |-> "ALLOCATED"]
            /\ on_rowp = [r \in R |-> <<0>>]
            /\ off_rowp = [r \in R |-> <<0>>]
            /\ vecDist = [r \in R |-> NULL]
       ELSE /\ comm = NoComm
            /\ err = [NoErr EXCEPT !.construct = Len(out.comm.group)]
            /\ staging = [r \in R |-> UNINIT]
            /\ on_rowp = [r \in R |-> <<>>]
            /\ off_rowp = [r \in R |-> <<>>]
            /\ vecDist \in [R -> {NULL, GARBAGE}]

InitWith(S, q) == InitProbe(S, q, NoProbe)

Init == InitWith(Setups, MaxEntries)

InitApply == InitWith(ApplySetups, MaxApplyEntries)

Constructed == comm # NoComm

\* --------------------------------------------------------------- addInterp
\* the rows a caller may hand to addInterp: vars and w of equal length size
RowArgs ==
  UNION { { [ivars |-> v, w |-> w] : v \in [1..k -> 0..(M_in - 1)], w \in [1..k -> Weights] }
          : k \in 0..MaxFanIn }

\* BVecInterp::addInterp(num, w, vars, size) on rank r.  The capacity
\* doubling (max_on_size, max_on_weights, ...) copies the arrays unchanged
\* and is not part of the state.
AddInterp(r, num, w, ivars, size) ==
  /\ ~crashed
  /\ Constructed
  /\ BagCardinality(staged) < MaxRows
  /\ size <= quota
  /\ IF staging[r] = NULL
     THEN \* after finalize the staging pointers are NULL: on_rowp[on_size]
          \* or off_rowp[off_size] is read through a null pointer
          /\ crashed' = TRUE
          /\ UNCHANGED <<cfgvars, probe, staging, onvars, offvars, opvars, err, callvars, quota, histvars>>
     ELSE /\ IF OwnsOut(r, num)
             THEN /\ on_nums' = [on_nums EXCEPT ![r] = Append(@, num)]
                  /\ on_rowp' = [on_rowp EXCEPT
                                   ![r] = Append(@, At(@, on_size[r]) + size)]
                  /\ on_vars' = [on_vars EXCEPT
                                   ![r] = Store(@, At(on_rowp[r], on_size[r]),
                                                Slice(ivars, 0, size))]
                  /\ on_weights' = [on_weights EXCEPT
                                      ![r] = Store(@, At(on_rowp[r], on_size[r]),
                                                   Slice(w, 0, size))]
                  /\ on_size' = [on_size EXCEPT ![r] = @ + 1]
                  /\ UNCHANGED offvars
             ELSE /\ off_nums' = [off_nums EXCEPT ![r] = Append(@, num)]
                  /\ off_rowp' = [off_rowp EXCEPT
                                    ![r] = Append(@, At(@, off_size[r]) + size)]
                  /\ off_vars' = [off_vars EXCEPT
                                    ![r] = Store(@, At(off_rowp[r], off_size[r]),
                                                 Slice(ivars, 0, size))]
                  /\ off_weights' = [off_weights EXCEPT
                                       ![r] = Store(@, At(off_rowp[r], off_size[r]),
                                                    Slice(w, 0, size))]
                  /\ off_size' = [off_size EXCEPT ![r] = @ + 1]
                  /\ UNCHANGED onvars
          /\ staged' = staged (+) SetToBag({[rank |-> r, num |-> num, size |-> size,
                                             ivars |-> Slice(ivars, 0, size),
                                             w |-> Slice(w, 0, size)]})
          /\ quota' = quota - (IF size > 0 THEN size ELSE 0)
          /\ UNCHANGED <<cfgvars, probe, staging, opvars, err, crashed, callvars, incoming,
                         unnormalized, tally>>

AddInterpCall ==
  \E r \in Ranks, num \in 0..(M_out - 1), a \in RowArgs :
    AddInterp(r, num, a.w, a.ivars, Len(a.ivars))

\* the same two index spaces, of two output and two input variables of
\* block size 1, partitioned over one, two and three ranks
World1 == [id |-> "world1", group |-> <<0>>]

RankSetups ==
  { <<VarMap(World1, 1, <<0, 2>>), VarMap(World1, 1, <<0, 2>>)>>,
    <<VarMap(World2, 1, <<0, 1, 2>>), VarMap(Dup2, 1, <<0, 1, 2>>)>>,
    <<VarMap(World2, 1, <<0, 2, 2>>), VarMap(World2, 1, <<0, 0, 2>>)>>,
    <<VarMap(World3, 1, <<0, 1, 1, 2>>), VarMap(World3, 1, <<0, 1, 2, 2>>)>> }

InitRanks == InitWith(RankSetups, MaxApplyEntries)

\* a pair of maps under which a rank owns two input variables and the other
\* rank sees both as external
StructSetups == { <<VarMap(World2, 1, <<0, 2, 3>>), VarMap(Dup2, 1, <<0, 1, 2>>)>> }

InitStruct == InitWith(StructSetups, MaxEntries)

\* the pair of maps of the runs that hand addInterp arguments out of range
RangeSetups == { <<VarMap(World2, 1, <<0, 1, 2>>), VarMap(Dup2, 1, <<0, 1, 2>>)>> }

InitRange == InitWith(RangeSetups, MaxApplyEntries)

\* rows whose input variables may lie one below or one above [0, M_in)
RangeRowArgs ==
  UNION { { [ivars |-> v, w |-> [q \in 1..k |-> RInt(1)]] : v \in [1..k -> (-1)..M_in] }
          : k \in 0..MaxFanIn }

\* addInterp with a row number one below or one above [0, M_out), with
\* input variables out of range, or with size = -1.  The negative size is
\* offered for a row the caller owns while on_rowp stays non-negative.
AddInterpAnyCall ==
  \E r \in Ranks, num \in (-1)..M_out, a \in RangeRowArgs :
    \/ AddInterp(r, num, a.w, a.ivars, Len(a.ivars))
    \/ /\ a.ivars = <<>>
       /\ staging[r] = "ALLOCATED"
       /\ OwnsOut(r, num)
       /\ At(on_rowp[r], on_size[r]) - 1 >= 0
       /\ AddInterp(r, num, a.w, a.ivars, -1)

\* ---------------------------------------------------------------- finalize
\* FElibrary::findInterval(index, intv, len): the k with
\* intv[k] <= index < intv[k+1]; -1 below the table, len-1 above it.
findInterval(index, intv, len) ==
  IF index < At(intv, 0) THEN -1
  ELSE IF index >= At(intv, len - 1) THEN len - 1
  ELSE CHOOSE k \in 0..(len - 2) : At(intv, k) <= index /\ index < At(intv, k + 1)

\* tmp_ptr[0] = 0; tmp_ptr[i+1] = tmp_ptr[i] + tmp_count[i]
RECURSIVE PtrFromCount(_)
PtrFromCount(count) ==
  IF count = <<>> THEN <<0>>
  ELSE LET p == PtrFromCount(Slice(count, 0, Len(count) - 1))
       IN  Append(p, p[Len(p)] + count[Len(count)])

\* copy src[from .. from+n) to dst[to .. to+n)
CopyInto(dst, to, src, from, n) ==
  [q \in 1..Len(dst) |->
     IF q - 1 >= to /\ q - 1 < to + n THEN At(src, from + (q - 1 - to)) ELSE dst[q]]

\* first loop over the remote rows: per-destination counts of rows and
\* entries.  The loop does not test index: for a row number below
\* outOwnerRange[0] or not below outOwnerRange[mpiSize] it increments
\* tmp_count[-1] or tmp_count[mpiSize], an int outside the two arrays (oob).
RECURSIVE CountOffLoop(_, _, _)
CountOffLoop(r, i, st) ==
  IF i >= off_size[r] THEN st
  ELSE LET index == findInterval(At(off_nums[r], i), outOwnerRange, mpiSize + 1)
           n == At(off_rowp[r], i + 1) - At(off_rowp[r], i)
       IN  IF index < 0 \/ index >= mpiSize
           THEN CountOffLoop(r, i + 1, [st EXCEPT !.oob = TRUE])
           ELSE CountOffLoop(r, i + 1,
                  [st EXCEPT
                     !.tmp_count = Put(@, index, At(@, index) + 1),
                     !.tmp_weights_count = Put(@, index, At(@, index) + n)])

\* the second loop without the advance of tmp_ptr[index]
RECURSIVE PackLoop_NoAdvance(_, _, _)
PackLoop_NoAdvance(r, i, st) ==
  IF i >= off_size[r] THEN st
  ELSE LET index == findInterval(At(off_nums[r], i), outOwnerRange, mpiSize + 1)
           n == At(off_rowp[r], i + 1) - At(off_rowp[r], i)
       IN  IF ~(index < 0 \/ index >= mpiSize)
           THEN PackLoop_NoAdvance(r, i + 1,
                  [tmp_nums |-> Put(st.tmp_nums, At(st.tmp_ptr, index), At(off_nums[r], i)),
                   tmp_weights |-> CopyInto(st.tmp_weights, At(st.tmp_weights_ptr, index),
                                            off_weights[r], At(off_rowp[r], i), n),
                   tmp_vars |-> CopyInto(st.tmp_vars, At(st.tmp_weights_ptr, index),
                                         off_vars[r], At(off_rowp[r], i), n),
                   tmp_weights_per_row |->
                     Put(st.tmp_weights_per_row, At(st.tmp_ptr, index), n),
                   tmp_ptr |-> st.tmp_ptr,
                   tmp_weights_ptr |->
                     Put(st.tmp_weights_ptr, index, At(st.tmp_weights_ptr, index) + n)])
           ELSE PackLoop_NoAdvance(r, i + 1, st)

\* the second loop passing over the rows that carry no entry
RECURSIVE PackLoop_SkipEmpty(_, _, _)
PackLoop_SkipEmpty(r, i, st) ==
  IF i >= off_size[r] THEN st
  ELSE LET index == findInterval(At(off_nums[r], i), outOwnerRange, mpiSize + 1)
           n == At(off_rowp[r], i + 1) - At(off_rowp[r], i)
       IN  IF ~(index < 0 \/ index >= mpiSize) /\ n > 0
           THEN PackLoop_SkipEmpty(r, i + 1,
                  [tmp_nums |-> Put(st.tmp_nums, At(st.tmp_ptr, index), At(off_nums[r], i)),
                   tmp_weights |-> CopyInto(st.tmp_weights, At(st.tmp_weights_ptr, index),
                                            off_weights[r], At(off_rowp[r], i), n),
                   tmp_vars |-> CopyInto(st.tmp_vars, At(st.tmp_weights_ptr, index),
                                         off_vars[r], At(off_rowp[r], i), n),
                   tmp_weights_per_row |->
                     Put(st.tmp_weights_per_row, At(st.tmp_ptr, index), n),
                   tmp_ptr |-> Put(st.tmp_ptr, index, At(st.tmp_ptr, index) + 1),
                   tmp_weights_ptr |->
                     Put(st.tmp_weights_ptr, index, At(st.tmp_weights_ptr, index) + n)])
           ELSE PackLoop_SkipEmpty(r, i + 1, st)

\* second loop: copy every remote row into the block of its destination
RECURSIVE PackLoop(_, _, _)
PackLoop(r, i, st) ==
  IF i >= off_size[r] THEN st
  ELSE LET index == findInterval(At(off_nums[r], i), outOwnerRange, mpiSize + 1)
           n == At(off_rowp[r], i + 1) - At(off_rowp[r], i)
       IN  IF ~(index < 0 \/ index >= mpiSize)
           THEN PackLoop(r, i + 1,
                  [tmp_nums |-> Put(st.tmp_nums, At(st.tmp_ptr, index), At(off_nums[r], i)),
                   tmp_weights |-> CopyInto(st.tmp_weights, At(st.tmp_weights_ptr, index),
                                            off_weights[r], At(off_rowp[r], i), n),
                   tmp_vars |-> CopyInto(st.tmp_vars, At(st.tmp_weights_ptr, index),
                                         off_vars[r], At(off_rowp[r], i), n),
                   tmp_weights_per_row |->
                     Put(st.tmp_weights_per_row, At(st.tmp_ptr, index), n),
                   tmp_ptr |-> Put(st.tmp_ptr, index, At(st.tmp_ptr, index) + 1),
                   tmp_weights_ptr |->
                     Put(st.tmp_weights_ptr, index, At(st.tmp_weights_ptr, index) + n)])
           ELSE PackLoop(r, i + 1, st)

\* what rank r holds when it reaches the first MPI call: the send counts,
\* the send displacements and the four packed arrays; packed and
\* packed_weights are the advances of tmp_ptr and tmp_weights_ptr in the
\* second loop, before the two arrays are reset
Pack(r) ==
  LET c == CountOffLoop(r, 0, [tmp_count |-> Fill(mpiSize, 0),
                               tmp_weights_count |-> Fill(mpiSize, 0),
                               oob |-> FALSE])
      p == PackLoop(r, 0,
             [tmp_ptr |-> PtrFromCount(c.tmp_count),
              tmp_weights_ptr |-> PtrFromCount(c.tmp_weights_count),
              tmp_nums |-> Fill(off_size[r], 0),
              tmp_weights_per_row |-> Fill(off_size[r], 0),
              tmp_vars |-> Fill(At(off_rowp[r], off_size[r]), 0),
              tmp_weights |-> Fill(At(off_rowp[r], off_size[r]), RZero)])
  IN  [oob |-> c.oob,
       packed |-> [q \in 1..mpiSize |-> p.tmp_ptr[q] - PtrFromCount(c.tmp_count)[q]],
       packed_weights |-> [q \in 1..mpiSize |->
                             p.tmp_weights_ptr[q] - PtrFromCount(c.tmp_weights_count)[q]],
       tmp_count |-> c.tmp_count,
       tmp_weights_count |-> c.tmp_weights_count,
       tmp_ptr |-> PtrFromCount(c.tmp_count),
       tmp_weights_ptr |-> PtrFromCount(c.tmp_weights_count),
       tmp_nums |-> p.tmp_nums,
       tmp_weights_per_row |-> p.tmp_weights_per_row,
       tmp_vars |-> p.tmp_vars,
       tmp_weights |-> p.tmp_weights]

\* MPI_Alltoall of one int: rank s receives sendbuf[r][s] from every r
MPI_Alltoall(sendbuf, s) == [q \in 1..mpiSize |-> At(sendbuf[q - 1], s)]

\* MPI_Alltoallv seen from the receiver s: block r of the receive buffer is
\* block s of the send buffer of rank r
MPI_Alltoallv(sendbuf, sdispls, recvcounts, rdispls, s) ==
  [q \in 1..At(rdispls, mpiSize) |->
     LET r == CHOOSE t \in Ranks :
                At(rdispls, t) <= q - 1 /\ q - 1 < At(rdispls, t) + At(recvcounts, t)
     IN  At(sendbuf[r], At(sdispls[r], s) + (q - 1 - At(rdispls, r)))]

\* one collective call on comm: the function and the send buffer
Collective(f, buf) == [call |-> f, sendbuf |-> buf]

\* a finalize in which a rank that staged no off-processor row returns
\* before the exchange
Exchange_SkipIdle(pk, s) ==
  LET in_count == MPI_Alltoall([r \in Ranks |-> pk[r].tmp_count], s)
      in_ptr == PtrFromCount(in_count)
      in_weights_count == MPI_Alltoall([r \in Ranks |-> pk[r].tmp_weights_count], s)
      in_weights_ptr == PtrFromCount(in_weights_count)
  IN  IF At(pk[s].tmp_ptr, mpiSize) = 0
      THEN NoIncoming
      ELSE [in_size |-> At(in_ptr, mpiSize),
       in_count |-> in_count, in_weights_count |-> in_weights_count,
            in_nums |-> MPI_Alltoallv([r \in Ranks |-> pk[r].tmp_nums],
                                      [r \in Ranks |-> pk[r].tmp_ptr],
                                      in_count, in_ptr, s),
            in_weights_per_row |->
              MPI_Alltoallv([r \in Ranks |-> pk[r].tmp_weights_per_row],
                            [r \in Ranks |-> pk[r].tmp_ptr],
                            in_count, in_ptr, s),
            in_vars |-> MPI_Alltoallv([r \in Ranks |-> pk[r].tmp_vars],
                                      [r \in Ranks |-> pk[r].tmp_weights_ptr],
                                      in_weights_count, in_weights_ptr, s),
            in_weights |-> MPI_Alltoallv([r \in Ranks |-> pk[r].tmp_weights],
                                         [r \in Ranks |-> pk[r].tmp_weights_ptr],
                                         in_weights_count, in_weights_ptr, s),
            mpi |-> <<Collective("MPI_Alltoall", "tmp_count"),
                      Collective("MPI_Alltoall", "tmp_weights_count"),
                      Collective("MPI_Alltoallv", "tmp_nums"),
                      Collective("MPI_Alltoallv", "tmp_weights_per_row"),
                      Collective("MPI_Alltoallv", "tmp_vars"),
                      Collective("MPI_Alltoallv", "tmp_weights")>>]

\* the incoming arrays of rank s after the two MPI_Alltoall and the four
\* MPI_Alltoallv calls, and those calls in the order rank s makes them
\* (mpi); pk[r] is Pack(r)
Exchange(pk, s) ==
  LET in_count == MPI_Alltoall([r \in Ranks |-> pk[r].tmp_count], s)
      in_ptr == PtrFromCount(in_count)
      in_weights_count == MPI_Alltoall([r \in Ranks |-> pk[r].tmp_weights_count], s)
      in_weights_ptr == PtrFromCount(in_weights_count)
  IN  [in_size |-> At(in_ptr, mpiSize),
       in_count |-> in_count, in_weights_count |-> in_weights_count,
       in_nums |-> MPI_Alltoallv([r \in Ranks |-> pk[r].tmp_nums],
                                 [r \in Ranks |-> pk[r].tmp_ptr],
                                 in_count, in_ptr, s),
       in_weights_per_row |->
         MPI_Alltoallv([r \in Ranks |-> pk[r].tmp_weights_per_row],
                       [r \in Ranks |-> pk[r].tmp_ptr],
                       in_count, in_ptr, s),
       in_vars |-> MPI_Alltoallv([r \in Ranks |-> pk[r].tmp_vars],
                                 [r \in Ranks |-> pk[r].tmp_weights_ptr],
                                 in_weights_count, in_weights_ptr, s),
       in_weights |-> MPI_Alltoallv([r \in Ranks |-> pk[r].tmp_weights],
                                    [r \in Ranks |-> pk[r].tmp_weights_ptr],
                                    in_weights_count, in_weights_ptr, s),
       mpi |-> <<Collective("MPI_Alltoall", "tmp_count"),
                 Collective("MPI_Alltoall", "tmp_weights_count"),
                 Collective("MPI_Alltoallv", "tmp_nums"),
                 Collective("MPI_Alltoallv", "tmp_weights_per_row"),
                 Collective("MPI_Alltoallv", "tmp_vars"),
                 Collective("MPI_Alltoallv", "tmp_weights")>>]

\* The rows rank r assembles: its own on-processor rows followed by the
\* received ones.  d holds the arrays the build loops read.
BuildInput(r, in) ==
  [on_size |-> on_size[r], on_nums |-> on_nums[r], on_rowp |-> on_rowp[r],
   on_vars |-> on_vars[r], on_weights |-> on_weights[r],
   in_size |-> in.in_size, in_nums |-> in.in_nums,
   in_weights_per_row |-> in.in_weights_per_row,
   in_vars |-> in.in_vars, in_weights |-> in.in_weights]

NumLocal(r, vs) == Cardinality({j \in 1..Len(vs) : OwnsIn(r, vs[j])})

NumExt(r, vs) == Cardinality({j \in 1..Len(vs) : ~OwnsIn(r, vs[j])})

\* count pass over the on-processor rows
RECURSIVE CountOnLoop(_, _, _, _)
CountOnLoop(r, d, i, st) ==
  IF i >= d.on_size THEN st
  ELSE LET num == At(d.on_nums, i)
           vs == Slice(d.on_vars, At(d.on_rowp, i), At(d.on_rowp, i + 1))
       IN  IF OwnsOut(r, num)
           THEN LET loc == num - At(outOwnerRange, r)
                IN  CountOnLoop(r, d, i + 1,
                      [st EXCEPT !.rowp = Put(@, loc + 1, At(@, loc + 1) + NumLocal(r, vs)),
                                 !.ext_rowp = Put(@, loc + 1, At(@, loc + 1) + NumExt(r, vs))])
           ELSE CountOnLoop(r, d, i + 1, [st EXCEPT !.nerr = @ + 1])

\* count pass over the received rows; k is the cursor into in_vars
RECURSIVE CountInLoop(_, _, _, _)
CountInLoop(r, d, i, st) ==
  IF i >= d.in_size THEN st
  ELSE LET num == At(d.in_nums, i)
           n == At(d.in_weights_per_row, i)
           vs == Slice(d.in_vars, st.k, st.k + n)
       IN  IF OwnsOut(r, num)
           THEN LET loc == num - At(outOwnerRange, r)
                IN  CountInLoop(r, d, i + 1,
                      [st EXCEPT !.rowp = Put(@, loc + 1, At(@, loc + 1) + NumLocal(r, vs)),
                                 !.ext_rowp = Put(@, loc + 1, At(@, loc + 1) + NumExt(r, vs)),
                                 !.k = @ + n])
           ELSE CountInLoop(r, d, i + 1, [st EXCEPT !.nerr = @ + 1, !.k = @ + n])

\* rowp[0] = 0; rowp[i+1] += rowp[i]
RECURSIVE PrefixSum(_, _)
PrefixSum(p, i) ==
  IF i >= Len(p) - 1 THEN p
  ELSE PrefixSum(Put(p, i + 1, At(p, i + 1) + At(p, i)), i + 1)

\* the inner loop of the placement pass for one row
RECURSIVE PlaceRow(_, _, _, _)
PlaceRow(r, loc, vs, st) ==
  IF vs = <<>> THEN st
  ELSE IF OwnsIn(r, Head(vs))
       THEN PlaceRow(r, loc, Tail(vs),
              [st EXCEPT !.cols = Put(@, At(st.rowp, loc), Head(vs)),
                         !.rowp = Put(@, loc, At(@, loc) + 1)])
       ELSE PlaceRow(r, loc, Tail(vs),
              [st EXCEPT !.ext_cols = Put(@, At(st.ext_rowp, loc), Head(vs)),
                         !.ext_rowp = Put(@, loc, At(@, loc) + 1)])

RECURSIVE PlaceOnLoop(_, _, _, _)
PlaceOnLoop(r, d, i, st) ==
  IF i >= d.on_size THEN st
  ELSE LET num == At(d.on_nums, i)
           vs == Slice(d.on_vars, At(d.on_rowp, i), At(d.on_rowp, i + 1))
       IN  IF OwnsOut(r, num)
           THEN PlaceOnLoop(r, d, i + 1, PlaceRow(r, num - At(outOwnerRange, r), vs, st))
           ELSE PlaceOnLoop(r, d, i + 1, st)

RECURSIVE PlaceInLoop(_, _, _, _)
PlaceInLoop(r, d, i, st) ==
  IF i >= d.in_size THEN st
  ELSE LET num == At(d.in_nums, i)
           n == At(d.in_weights_per_row, i)
           vs == Slice(d.in_vars, st.k, st.k + n)
       IN  IF OwnsOut(r, num)
           THEN PlaceInLoop(r, d, i + 1,
                  [PlaceRow(r, num - At(outOwnerRange, r), vs, st) EXCEPT !.k = @ + n])
           ELSE PlaceInLoop(r, d, i + 1, [st EXCEPT !.k = @ + n])

\* for i = N..1: rowp[i] = rowp[i-1]; rowp[0] = 0
ShiftBack(p) == [q \in 1..Len(p) |-> IF q = 1 THEN 0 ELSE p[q - 1]]

RECURSIVE SortedSeq(_)
SortedSeq(S) ==
  IF S = {} THEN <<>>
  ELSE LET m == CHOOSE x \in S : \A y \in S : x <= y
       IN  <<m>> \o SortedSeq(S \ {m})

\* FElibrary::uniqueSort(array, len): the distinct values in ascending order
uniqueSort(array, len) == SortedSeq({array[q] : q \in 1..len})

\* matutils::SortAndUniquifyCSR(nvars, rowp, cols, remove_diag): every row
\* sorted ascending with duplicates removed (and the diagonal, on request),
\* rows packed to the front and rowp rebuilt
RECURSIVE SortAndUniquifyRows(_, _, _, _, _)
SortAndUniquifyRows(nvars, p, c, remove_diag, i) ==
  IF i >= nvars THEN [rowp |-> <<0>>, cols |-> <<>>]
  ELSE LET rest == SortAndUniquifyRows(nvars, p, c, remove_diag, i + 1)
           u == uniqueSort(Slice(c, At(p, i), At(p, i + 1)), At(p, i + 1) - At(p, i))
           row == IF remove_diag # 0 THEN SelectSeq(u, LAMBDA x : x # i) ELSE u
       IN  [rowp |-> <<0>> \o [q \in 1..Len(rest.rowp) |-> rest.rowp[q] + Len(row)],
            cols |-> row \o rest.cols]

SortAndUniquifyCSR(nvars, p, c, remove_diag) ==
  SortAndUniquifyRows(nvars, p, c, remove_diag, 0)

\* bsearch(&key, &arr[base], size, sizeof(int), comparator): the index in
\* arr of an element equal to key, -1 for a null result
RECURSIVE BsearchRange(_, _, _, _)
BsearchRange(key, arr, lo, hi) ==
  IF lo >= hi THEN -1
  ELSE LET mid == (lo + hi) \div 2
       IN  IF At(arr, mid) = key THEN mid
           ELSE IF key < At(arr, mid) THEN BsearchRange(key, arr, lo, mid)
           ELSE BsearchRange(key, arr, mid + 1, hi)

bsearch(key, arr, base, size) == BsearchRange(key, arr, base, base + size)

\* the weight pass storing the weight (=) where the code accumulates (+=)
RECURSIVE AddRowWeights_Overwrite(_, _, _, _, _, _)
AddRowWeights_Overwrite(r, c, loc, vs, ws, st) ==
  IF vs = <<>> THEN st
  ELSE IF OwnsIn(r, Head(vs))
       THEN LET size == At(c.rowp, loc + 1) - At(c.rowp, loc)
                item == bsearch(Head(vs), c.cols, At(c.rowp, loc), size)
            IN  AddRowWeights_Overwrite(r, c, loc, Tail(vs), Tail(ws),
                  IF item # -1
                  THEN [st EXCEPT !.weights = Put(@, item, Head(ws))]
                  ELSE st)
       ELSE LET size == At(c.ext_rowp, loc + 1) - At(c.ext_rowp, loc)
                item == bsearch(Head(vs), c.ext_cols, At(c.ext_rowp, loc), size)
            IN  AddRowWeights_Overwrite(r, c, loc, Tail(vs), Tail(ws),
                  IF item # -1
                  THEN [st EXCEPT !.ext_weights = Put(@, item, Head(ws))]
                  ELSE st)

\* the inner loop of the weight pass for one row; c is the uniquified CSR
RECURSIVE AddRowWeights(_, _, _, _, _, _)
AddRowWeights(r, c, loc, vs, ws, st) ==
  IF vs = <<>> THEN st
  ELSE IF OwnsIn(r, Head(vs))
       THEN LET size == At(c.rowp, loc + 1) - At(c.rowp, loc)
                item == bsearch(Head(vs), c.cols, At(c.rowp, loc), size)
            IN  AddRowWeights(r, c, loc, Tail(vs), Tail(ws),
                  IF item # -1
                  THEN [st EXCEPT !.weights = Put(@, item, RAdd(At(@, item), Head(ws)))]
                  ELSE st)
       ELSE LET size == At(c.ext_rowp, loc + 1) - At(c.ext_rowp, loc)
                item == bsearch(Head(vs), c.ext_cols, At(c.ext_rowp, loc), size)
            IN  AddRowWeights(r, c, loc, Tail(vs), Tail(ws),
                  IF item # -1
                  THEN [st EXCEPT !.ext_weights = Put(@, item, RAdd(At(@, item), Head(ws)))]
                  ELSE st)

RECURSIVE WeightOnLoop(_, _, _, _, _)
WeightOnLoop(r, d, c, i, st) ==
  IF i >= d.on_size THEN st
  ELSE LET num == At(d.on_nums, i)
           vs == Slice(d.on_vars, At(d.on_rowp, i), At(d.on_rowp, i + 1))
           ws == Slice(d.on_weights, At(d.on_rowp, i), At(d.on_rowp, i + 1))
       IN  IF OwnsOut(r, num)
           THEN WeightOnLoop(r, d, c, i + 1,
                  AddRowWeights(r, c, num - At(outOwnerRange, r), vs, ws, st))
           ELSE WeightOnLoop(r, d, c, i + 1, st)

\* the weight pass over the received rows with the cursor left where it is
\* when a row of another owner is met
RECURSIVE WeightInLoop_NoSkip(_, _, _, _, _)
WeightInLoop_NoSkip(r, d, c, i, st) ==
  IF i >= d.in_size THEN st
  ELSE LET num == At(d.in_nums, i)
           n == At(d.in_weights_per_row, i)
           vs == Slice(d.in_vars, st.k, st.k + n)
           ws == Slice(d.in_weights, st.k, st.k + n)
       IN  IF OwnsOut(r, num)
           THEN WeightInLoop_NoSkip(r, d, c, i + 1,
                  [AddRowWeights(r, c, num - At(outOwnerRange, r), vs, ws, st)
                     EXCEPT !.k = @ + n])
           ELSE WeightInLoop_NoSkip(r, d, c, i + 1, st)

RECURSIVE WeightInLoop(_, _, _, _, _)
WeightInLoop(r, d, c, i, st) ==
  IF i >= d.in_size THEN st
  ELSE LET num == At(d.in_nums, i)
           n == At(d.in_weights_per_row, i)
           vs == Slice(d.in_vars, st.k, st.k + n)
           ws == Slice(d.in_weights, st.k, st.k + n)
       IN  IF OwnsOut(r, num)
           THEN WeightInLoop(r, d, c, i + 1,
                  [AddRowWeights(r, c, num - At(outOwnerRange, r), vs, ws, st)
                     EXCEPT !.k = @ + n])
           ELSE WeightInLoop(r, d, c, i + 1, [st EXCEPT !.k = @ + n])

\* the sum of the internal and external weights of row i
RowSum(c, i) ==
  RAdd(RSumSeq(Slice(c.weights, At(c.rowp, i), At(c.rowp, i + 1))),
       RSumSeq(Slice(c.ext_weights, At(c.ext_rowp, i), At(c.ext_rowp, i + 1))))

RowOf(p, q) == CHOOSE i \in 0..(Len(p) - 2) : At(p, i) <= q - 1 /\ q - 1 < At(p, i + 1)

\* normalisation guarded by w > 0.0 where the code tests w != 0.0
NormalizeRow_PositiveOnly(c, i, wv) ==
  IF RowSum(c, i)[1] > 0 THEN RDiv(wv, RowSum(c, i)) ELSE wv

\* if (w != 0.0) every weight of the row is divided by w
NormalizeRow(c, i, wv) ==
  IF RowSum(c, i) # RZero THEN RDiv(wv, RowSum(c, i)) ELSE wv

\* the normalisation applied to the internal weights only
Normalize_DiagOnly(c) ==
  [c EXCEPT
     !.weights = [q \in 1..Len(c.weights) |-> NormalizeRow(c, RowOf(c.rowp, q), c.weights[q])]]

\* for every row: w = sum of weights and ext_weights of the row, then the
\* division of both by w
Normalize(c) ==
  [c EXCEPT
     !.weights = [q \in 1..Len(c.weights) |-> NormalizeRow(c, RowOf(c.rowp, q), c.weights[q])],
     !.ext_weights = [q \in 1..Len(c.ext_weights) |->
                        NormalizeRow(c, RowOf(c.ext_rowp, q), c.ext_weights[q])]]

\* the shift of the diag columns taken the wrong way round
LocalCols_Reversed(r, c) == [q \in 1..Len(c) |-> At(inOwnerRange, r) - c[q]]

\* cols[j] = cols[j] - inOwnerRange[mpiRank]
LocalCols(r, c) == [q \in 1..Len(c) |-> c[q] - At(inOwnerRange, r)]

\* the external columns left as global variable numbers
ExtCols_Global(c, ev) == c

\* ext_cols[j] = item - ext_vars, item the bsearch result for ext_cols[j]
ExtCols(c, ev) == [q \in 1..Len(c) |-> bsearch(c[q], ev, 0, Len(ev))]

\* the CSR arrays of rank r before the weights are normalised
BuildCSR(r, d) ==
  LET n == N(r)
      cnt0 == CountOnLoop(r, d, 0, [rowp |-> Fill(n + 1, 0), ext_rowp |-> Fill(n + 1, 0),
                                    nerr |-> 0, k |-> 0])
      cnt == CountInLoop(r, d, 0, cnt0)
      p == PrefixSum(cnt.rowp, 0)
      ep == PrefixSum(cnt.ext_rowp, 0)
      pl0 == PlaceOnLoop(r, d, 0, [rowp |-> p, ext_rowp |-> ep,
                                   cols |-> Fill(At(p, n), 0),
                                   ext_cols |-> Fill(At(ep, n), 0), k |-> 0])
      pl == PlaceInLoop(r, d, 0, pl0)
      su == SortAndUniquifyCSR(n, ShiftBack(pl.rowp), pl.cols, 0)
      esu == SortAndUniquifyCSR(n, ShiftBack(pl.ext_rowp), pl.ext_cols, 0)
      c == [rowp |-> su.rowp, cols |-> su.cols,
            ext_rowp |-> esu.rowp, ext_cols |-> esu.cols]
      w0 == WeightOnLoop(r, d, c, 0, [weights |-> Fill(At(su.rowp, n), RZero),
                                      ext_weights |-> Fill(At(esu.rowp, n), RZero),
                                      k |-> 0])
      wt == WeightInLoop(r, d, c, 0, w0)
      ev == uniqueSort(esu.cols, At(esu.rowp, n))
  IN  [rowp |-> su.rowp,
       cols |-> LocalCols(r, su.cols),
       weights |-> wt.weights,
       ext_rowp |-> esu.rowp,
       ext_cols |-> ExtCols(esu.cols, ev),
       ext_weights |-> wt.ext_weights,
       ext_vars |-> ev,
       num_ext_vars |-> Len(ev),
       nerr |-> cnt.nerr,
       k |-> <<cnt.k, pl.k, wt.k>>]

\* BVecInterp::finalize() called on every rank of the communicator.
\*  - On an operator whose constructor returned early, comm and the staging
\*    fields were never assigned: MPI_Comm_size and the loops run on garbage.
\*  - On a finalised operator the staging pointers are NULL and
\*    off_rowp[off_size] is read through a null pointer.
\*  - A write outside tmp_count (Pack(r).oob) lands in the allocator's
\*    bookkeeping or in padding: the run dies at a later delete [] or goes
\*    on with the arrays intact.
\* x_ext is allocated but not initialised; it is written before every read.
Finalize ==
  /\ ~crashed
  /\ IF ~Constructed \/ \E r \in Ranks : staging[r] # "ALLOCATED"
     THEN /\ crashed' = TRUE
          /\ UNCHANGED <<cfgvars, probe, staging, onvars, offvars, opvars, err, callvars, quota, histvars>>
     ELSE \E pk \in {[r \in Ranks |-> Pack(r)]} :
          \E dies \in {d \in BOOLEAN : d => \E r \in Ranks : pk[r].oob} :
          IF dies
          THEN /\ crashed' = TRUE
               /\ UNCHANGED <<cfgvars, probe, staging, onvars, offvars, opvars, err, callvars,
                              quota, histvars>>
          ELSE
          \E in \in {[s \in Ranks |-> Exchange(pk, s)]} :
          \E csr \in {[r \in Ranks |-> BuildCSR(r, BuildInput(r, in[r]))]} :
          \E fin \in {[r \in Ranks |-> Normalize(csr[r])]} :
              /\ incoming' = in
              /\ tally' = [r \in Ranks |-> [packed |-> pk[r].packed,
                                            packed_weights |-> pk[r].packed_weights,
                                            k |-> csr[r].k]]
              /\ unnormalized' = [r \in Ranks |-> [weights |-> csr[r].weights,
                                                   ext_weights |-> csr[r].ext_weights]]
              /\ rowp' = [r \in Ranks |-> fin[r].rowp]
              /\ cols' = [r \in Ranks |-> fin[r].cols]
              /\ weights' = [r \in Ranks |-> fin[r].weights]
              /\ ext_rowp' = [r \in Ranks |-> fin[r].ext_rowp]
              /\ ext_cols' = [r \in Ranks |-> fin[r].ext_cols]
              /\ ext_weights' = [r \in Ranks |-> fin[r].ext_weights]
              /\ ext_vars' = [r \in Ranks |-> fin[r].ext_vars]
              /\ num_ext_vars' = [r \in Ranks |-> fin[r].num_ext_vars]
              /\ vecDist' = [r \in Ranks |-> VECDIST]
              /\ x_ext' = [r \in Ranks |-> Fill(bsize * fin[r].num_ext_vars, RZero)]
              /\ err' = [err EXCEPT !.range = @ + SumSeq([q \in 1..mpiSize |-> csr[q - 1].nerr])]
              /\ staging' = [r \in Ranks |-> NULL]
              /\ on_nums' = [r \in Ranks |-> <<>>]
              /\ on_rowp' = [r \in Ranks |-> <<>>]
              /\ on_vars' = [r \in Ranks |-> <<>>]
              /\ on_weights' = [r \in Ranks |-> <<>>]
              /\ off_nums' = [r \in Ranks |-> <<>>]
              /\ off_rowp' = [r \in Ranks |-> <<>>]
              /\ off_vars' = [r \in Ranks |-> <<>>]
              /\ off_weights' = [r \in Ranks |-> <<>>]
              /\ UNCHANGED <<cfgvars, probe, on_size, off_size, crashed, callvars, quota, staged>>

\* ------------------------------------------------------------ the kernels
RECURSIVE FoldLeft(_, _, _)
FoldLeft(Op(_, _), acc, s) ==
  IF s = <<>> THEN acc ELSE FoldLeft(Op, Op(acc, Head(s)), Tail(s))

\* The loop nest shared by all kernels,
\*   for (i = 0; i < nrows; i++) for (j = rowp[i]; j < rowp[i+1]; j++, w++)
\* as the sequence of <<i, cols[j], w[0]>> it visits, in order.
RECURSIVE CsrLoop(_, _, _, _, _, _, _)
CsrLoop(nrows, p, c, w, i, j, wi) ==
  IF i >= nrows THEN <<>>
  ELSE IF j >= At(p, i + 1)
       THEN IF i + 1 >= nrows THEN <<>>
            ELSE CsrLoop(nrows, p, c, w, i + 1, At(p, i + 1), wi)
  ELSE <<<<i, At(c, j), At(w, wi)>>>> \o CsrLoop(nrows, p, c, w, i, j + 1, wi + 1)

CsrEntries(nrows, p, c, w) ==
  IF nrows <= 0 THEN <<>> ELSE CsrLoop(nrows, p, c, w, 0, At(p, 0), 0)

\* y[yi] += wv*x[xi]
Axpy(y, yi, wv, x, xi) == Put(y, yi, RAdd(At(y, yi), RMul(wv, At(x, xi))))

\* for (k = 0; k < bsize; k++) y[bsize*a+k] += wv*x[bsize*b+k]
RECURSIVE GenBlock(_, _, _, _, _, _, _)
GenBlock(n, y, a, wv, x, b, k) ==
  IF k >= n THEN y
  ELSE GenBlock(n, Axpy(y, n * a + k, wv, x, n * b + k), a, wv, x, b, k + 1)

BVecInterpMultAddGen(b, nrows, p, c, w, x, y) ==
  FoldLeft(LAMBDA acc, e : GenBlock(b, acc, e[1], e[3], x, e[2], 0),
           y, CsrEntries(nrows, p, c, w))

BVecInterpMultTransposeAddGen(b, nrows, p, c, w, x, y) ==
  FoldLeft(LAMBDA acc, e : GenBlock(b, acc, e[2], e[3], x, e[1], 0),
           y, CsrEntries(nrows, p, c, w))

BVecInterpMultAdd1(b, nrows, p, c, w, x, y) ==
  FoldLeft(LAMBDA acc, e : Axpy(acc, e[1], e[3], x, e[2]),
           y, CsrEntries(nrows, p, c, w))

BVecInterpMultTransposeAdd1(b, nrows, p, c, w, x, y) ==
  FoldLeft(LAMBDA acc, e : Axpy(acc, e[2], e[3], x, e[1]),
           y, CsrEntries(nrows, p, c, w))

BVecInterpMultAdd2(b, nrows, p, c, w, x, y) ==
  FoldLeft(LAMBDA acc, e :
             Axpy(Axpy(acc, 2 * e[1], e[3], x, 2 * e[2]),
                  2 * e[1] + 1, e[3], x, 2 * e[2] + 1),
           y, CsrEntries(nrows, p, c, w))

BVecInterpMultTransposeAdd2(b, nrows, p, c, w, x, y) ==
  FoldLeft(LAMBDA acc, e :
             Axpy(Axpy(acc, 2 * e[2], e[3], x, 2 * e[1]),
                  2 * e[2] + 1, e[3], x, 2 * e[1] + 1),
           y, CsrEntries(nrows, p, c, w))

\* the kernel for bsize = 3 with the second line repeated for the third
BVecInterpMultAdd3_Repeated(b, nrows, p, c, w, x, y) ==
  FoldLeft(LAMBDA acc, e :
             Axpy(Axpy(Axpy(acc, 3 * e[1], e[3], x, 3 * e[2]),
                       3 * e[1] + 1, e[3], x, 3 * e[2] + 1),
                  3 * e[1] + 2, e[3], x, 3 * e[2] + 1),
           y, CsrEntries(nrows, p, c, w))

BVecInterpMultAdd3(b, nrows, p, c, w, x, y) ==
  FoldLeft(LAMBDA acc, e :
             Axpy(Axpy(Axpy(acc, 3 * e[1], e[3], x, 3 * e[2]),
                       3 * e[1] + 1, e[3], x, 3 * e[2] + 1),
                  3 * e[1] + 2, e[3], x, 3 * e[2] + 2),
           y, CsrEntries(nrows, p, c, w))

BVecInterpMultTransposeAdd3(b, nrows, p, c, w, x, y) ==
  FoldLeft(LAMBDA acc, e :
             Axpy(Axpy(Axpy(acc, 3 * e[2], e[3], x, 3 * e[1]),
                       3 * e[2] + 1, e[3], x, 3 * e[1] + 1),
                  3 * e[2] + 2, e[3], x, 3 * e[1] + 2),
           y, CsrEntries(nrows, p, c, w))

BVecInterpMultAdd5(b, nrows, p, c, w, x, y) ==
  FoldLeft(LAMBDA acc, e :
             Axpy(Axpy(Axpy(Axpy(Axpy(acc, 5 * e[1], e[3], x, 5 * e[2]),
                                 5 * e[1] + 1, e[3], x, 5 * e[2] + 1),
                            5 * e[1] + 2, e[3], x, 5 * e[2] + 2),
                       5 * e[1] + 3, e[3], x, 5 * e[2] + 3),
                  5 * e[1] + 4, e[3], x, 5 * e[2] + 4),
           y, CsrEntries(nrows, p, c, w))

BVecInterpMultTransposeAdd5(b, nrows, p, c, w, x, y) ==
  FoldLeft(LAMBDA acc, e :
             Axpy(Axpy(Axpy(Axpy(Axpy(acc, 5 * e[2], e[3], x, 5 * e[1]),
                                 5 * e[2] + 1, e[3], x, 5 * e[1] + 1),
                            5 * e[2] + 2, e[3], x, 5 * e[1] + 2),
                       5 * e[2] + 3, e[3], x, 5 * e[1] + 3),
                  5 * e[2] + 4, e[3], x, 5 * e[1] + 4),
           y, CsrEntries(nrows, p, c, w))

BVecInterpMultAdd6(b, nrows, p, c, w, x, y) ==
  FoldLeft(LAMBDA acc, e :
             Axpy(Axpy(Axpy(Axpy(Axpy(Axpy(acc, 6 * e[1], e[3], x, 6 * e[2]),
                                      6 * e[1] + 1, e[3], x, 6 * e[2] + 1),
                                 6 * e[1] + 2, e[3], x, 6 * e[2] + 2),
                            6 * e[1] + 3, e[3], x, 6 * e[2] + 3),
                       6 * e[1] + 4, e[3], x, 6 * e[2] + 4),
                  6 * e[1] + 5, e[3], x, 6 * e[2] + 5),
           y, CsrEntries(nrows, p, c, w))

BVecInterpMultTransposeAdd6(b, nrows, p, c, w, x, y) ==
  FoldLeft(LAMBDA acc, e :
             Axpy(Axpy(Axpy(Axpy(Axpy(Axpy(acc, 6 * e[2], e[3], x, 6 * e[1]),
                                      6 * e[2] + 1, e[3], x, 6 * e[1] + 1),
                                 6 * e[2] + 2, e[3], x, 6 * e[1] + 2),
                            6 * e[2] + 3, e[3], x, 6 * e[1] + 3),
                       6 * e[2] + 4, e[3], x, 6 * e[1] + 4),
                  6 * e[2] + 5, e[3], x, 6 * e[1] + 5),
           y, CsrEntries(nrows, p, c, w))

\* the function pointers multadd and multtransadd the constructor selects
multadd(b, nrows, p, c, w, x, y) ==
  CASE b = 1 -> BVecInterpMultAdd1(b, nrows, p, c, w, x, y)
    [] b = 2 -> BVecInterpMultAdd2(b, nrows, p, c, w, x, y)
    [] b = 3 -> BVecInterpMultAdd3(b, nrows, p, c, w, x, y)
    [] b = 5 -> BVecInterpMultAdd5(b, nrows, p, c, w, x, y)
    [] b = 6 -> BVecInterpMultAdd6(b, nrows, p, c, w, x, y)
    [] OTHER -> BVecInterpMultAddGen(b, nrows, p, c, w, x, y)

multtransadd(b, nrows, p, c, w, x, y) ==
  CASE b = 1 -> BVecInterpMultTransposeAdd1(b, nrows, p, c, w, x, y)
    [] b = 2 -> BVecInterpMultTransposeAdd2(b, nrows, p, c, w, x, y)
    [] b = 3 -> BVecInterpMultTransposeAdd3(b, nrows, p, c, w, x, y)
    [] b = 5 -> BVecInterpMultTransposeAdd5(b, nrows, p, c, w, x, y)
    [] b = 6 -> BVecInterpMultTransposeAdd6(b, nrows, p, c, w, x, y)
    [] OTHER -> BVecInterpMultTransposeAddGen(b, nrows, p, c, w, x, y)

\* --------------------------------------------- the kernels called directly
\* the block sizes with a kernel of their own
KernelBlockSizes == {1, 2, 3, 5, 6}

KernelWeights == {RInt(-1), RInt(2), <<1, 2>>}

\* rowp arrays of n rows with at most MaxKernelEntries entries
KernelRowp(n) ==
  {p \in [1..(n + 1) -> 0..MaxKernelEntries] :
     p[1] = 0 /\ \A i \in 1..n : p[i] <= p[i + 1]}

\* the CSR matrices of n rows and m columns offered to the kernels
KernelMatrices ==
  UNION { { [nrows |-> n, ncols |-> m, rowp |-> p, cols |-> c, w |-> w] :
              c \in [1..p[n + 1] -> 0..(m - 1)], w \in [1..p[n + 1] -> KernelWeights] }
          : <<n, m, p>> \in { <<n, m, p>> \in (1..MaxKernelDim) \X (1..MaxKernelDim)
                                             \X UNION {KernelRowp(k) : k \in 1..MaxKernelDim} :
                                Len(p) = n + 1 } }

\* the array of length len whose element q (from 0) is a*q + c
KernelVec(len, a, c) == [q \in 1..len |-> RInt(a * (q - 1) + c)]

\* the arguments of one direct kernel call: block size, matrix, x and the
\* initial y for the product (x, y) and for the transposed product (xt, yt)
KernelInputs ==
  { [op |-> "kernel input", b |-> b, m |-> m,
     x |-> KernelVec(b * m.ncols, a, 2), y |-> KernelVec(b * m.nrows, 2, a),
     xt |-> KernelVec(b * m.nrows, a, 2), yt |-> KernelVec(b * m.ncols, 2, a)]
    : b \in KernelBlockSizes, m \in KernelMatrices, a \in {1, -3} }

\* The arguments are handed to the kernel pair the constructor selects for b
\* and to the generic pair called with the same b.
KernelCall ==
  /\ probe.op = "kernel input"
  /\ probe' =
       [probe EXCEPT !.op = "kernel"] @@
       [selected |-> multadd(probe.b, probe.m.nrows, probe.m.rowp, probe.m.cols,
                             probe.m.w, probe.x, probe.y),
        generic |-> BVecInterpMultAddGen(probe.b, probe.m.nrows, probe.m.rowp,
                                         probe.m.cols, probe.m.w, probe.x, probe.y),
        selectedT |-> multtransadd(probe.b, probe.m.nrows, probe.m.rowp, probe.m.cols,
                                   probe.m.w, probe.xt, probe.yt),
        genericT |-> BVecInterpMultTransposeAddGen(probe.b, probe.m.nrows, probe.m.rowp,
                                                   probe.m.cols, probe.m.w, probe.xt,
                                                   probe.yt)]
  /\ UNCHANGED <<cfgvars, staging, onvars, offvars, opvars, err, crashed, callvars,
                 quota, histvars>>

\* ---------------------------------------------- vectors and halo exchange
\* length of the local array of a BVec over map on rank r
LocalDim(map, r) == map.bsize * (At(map.ownerRange, r + 1) - At(map.ownerRange, r))

\* the distributed vector whose global component p (counted from 1) is a*p + c
VecOf(map, a, c) ==
  [r \in Ranks |->
     [q \in 1..LocalDim(map, r) |-> RInt(a * (map.bsize * At(map.ownerRange, r) + q) + c)]]

\* input vectors offered to the products, and the caller's two other vectors
XVecs(map) == {VecOf(map, 1, 0), VecOf(map, -2, 7)}

CallerVecs(map) == [Y |-> VecOf(map, 0, 5), Z |-> VecOf(map, 2, 1)]

\* BVec::zeroEntries on one local array
zeroEntries(v) == [q \in 1..Len(v) |-> RZero]

\* BVec::copyValues: the local array of the destination after the copy
copyValues(dst, src) == src

\* BVecDistribute::beginForward .. endForward(inVec, x_ext) on rank r:
\* x_ext[bsize*e+k] receives component k of the global variable ext_vars[e]
\* from the rank that owns it
ForwardValues(x, r) ==
  [q \in 1..(bsize * num_ext_vars[r]) |->
     LET e == (q - 1) \div bsize
         k == (q - 1) % bsize
         g == At(ext_vars[r], e)
         o == findInterval(g, inOwnerRange, mpiSize + 1)
     IN  At(x[o], bsize * (g - At(inOwnerRange, o)) + k)]

\* BVecDistribute::beginReverse .. endReverse(x_ext, outVec, ADD) seen from
\* the owner o: every rank's x_ext block of a variable o owns is added to it
ReverseAdd(xe, out, o) ==
  [q \in 1..Len(out) |->
     LET g == At(inOwnerRange, o) + ((q - 1) \div bsize)
         k == (q - 1) % bsize
         part(r) == IF \E e \in 0..(num_ext_vars[r] - 1) : At(ext_vars[r], e) = g
                    THEN At(xe[r], bsize * (CHOOSE e \in 0..(num_ext_vars[r] - 1) :
                                              At(ext_vars[r], e) = g) + k)
                    ELSE RZero
     IN  RAdd(out[q], RSumSeq([t \in 1..mpiSize |-> part(t - 1)]))]

\* ------------------------------------------------------------ the products
Usable == \A r \in Ranks : vecDist[r] = VECDIST

\* One executed statement of a product: the function called, the matrix
\* part a kernel multiplies ("" for other statements) and the arrays among
\* in, out, add and x_ext that the BVecInterp code itself reads and writes
\* in it.  vecDist's begin and end calls are handed x_ext; what the exchange
\* does with it between them is not an access of BVecInterp.
Stmt(f, part, rd, wr) == [stmt |-> f, part |-> part, reads |-> rd, writes |-> wr]

ZeroStmt == Stmt("zeroEntries", "", {}, {"out"})

CopyStmt == Stmt("copyValues", "", {"add"}, {"out"})

MemsetStmt == Stmt("memset", "", {}, {"x_ext"})

DiagStmt(f) == Stmt(f, "diag", {"in", "out"}, {"out"})

\* mult without the off-processor product
MultRank_NoOffd(r, x, out) ==
  LET out0 == zeroEntries(out)
      xe == ForwardValues(x, r)
  IN  [out |-> multadd(bsize, N(r), rowp[r], cols[r], weights[r], x[r], out0),
       x_ext |-> xe,
       trace |-> <<ZeroStmt, Stmt("beginForward", "", {}, {}), DiagStmt("multadd"),
                   Stmt("endForward", "", {}, {})>>]

\* mult with the off-processor product taken before endForward, from the
\* halo buffer as the previous call left it
MultRank_EarlyOffd(r, x, out) ==
  LET out0 == zeroEntries(out)
      out1 == multadd(bsize, N(r), rowp[r], cols[r], weights[r], x[r], out0)
      xe == ForwardValues(x, r)
  IN  [out |-> multadd(bsize, N(r), ext_rowp[r], ext_cols[r], ext_weights[r], x_ext[r], out1),
       x_ext |-> xe,
       trace |-> <<ZeroStmt, Stmt("beginForward", "", {}, {}), DiagStmt("multadd"),
                   Stmt("multadd", "offd", {"x_ext", "out"}, {"out"}),
                   Stmt("endForward", "", {}, {})>>]

\* body of BVecInterp::mult on rank r once the guard has passed
MultRank(r, x, out) ==
  LET out0 == zeroEntries(out)
      out1 == multadd(bsize, N(r), rowp[r], cols[r], weights[r], x[r], out0)
      xe == ForwardValues(x, r)
  IN  [out |-> multadd(bsize, N(r), ext_rowp[r], ext_cols[r], ext_weights[r], xe, out1),
       x_ext |-> xe,
       trace |-> <<ZeroStmt, Stmt("beginForward", "", {}, {}), DiagStmt("multadd"),
                   Stmt("endForward", "", {}, {}),
                   Stmt("multadd", "offd", {"x_ext", "out"}, {"out"})>>]

\* multAdd without the copy of addVec into outVec
MultAddRank_NoCopy(r, x, add, out, same) ==
  LET out1 == multadd(bsize, N(r), rowp[r], cols[r], weights[r], x[r], out)
      xe == ForwardValues(x, r)
  IN  [out |-> multadd(bsize, N(r), ext_rowp[r], ext_cols[r], ext_weights[r], xe, out1),
       x_ext |-> xe,
       trace |-> <<Stmt("beginForward", "", {}, {}), DiagStmt("multadd"),
                   Stmt("endForward", "", {}, {}),
                   Stmt("multadd", "offd", {"x_ext", "out"}, {"out"})>>]

\* body of BVecInterp::multAdd on rank r once the guard has passed
MultAddRank(r, x, add, out, same) ==
  LET out0 == IF ~same THEN copyValues(out, add) ELSE out
      out1 == multadd(bsize, N(r), rowp[r], cols[r], weights[r], x[r], out0)
      xe == ForwardValues(x, r)
  IN  [out |-> multadd(bsize, N(r), ext_rowp[r], ext_cols[r], ext_weights[r], xe, out1),
       x_ext |-> xe,
       trace |-> (IF ~same THEN <<CopyStmt>> ELSE <<>>) \o
                 <<Stmt("beginForward", "", {}, {}), DiagStmt("multadd"),
                   Stmt("endForward", "", {}, {}),
                   Stmt("multadd", "offd", {"x_ext", "out"}, {"out"})>>]

\* multTranspose without the off-processor product into x_ext
MultTransposeRank_NoHalo(r, x, out) ==
  LET out0 == zeroEntries(out)
  IN  [out |-> multtransadd(bsize, N(r), rowp[r], cols[r], weights[r], x[r], out0),
       x_ext |-> Fill(bsize * num_ext_vars[r], RZero),
       trace |-> <<ZeroStmt, MemsetStmt, Stmt("beginReverse", "", {}, {}),
                   DiagStmt("multtransadd"), Stmt("endReverse", "", {}, {})>>]

\* body of BVecInterp::multTranspose on rank r up to endReverse
MultTransposeRank(r, x, out) ==
  LET out0 == zeroEntries(out)
      xe0 == Fill(bsize * num_ext_vars[r], RZero)
      xe == multtransadd(bsize, N(r), ext_rowp[r], ext_cols[r], ext_weights[r], x[r], xe0)
  IN  [out |-> multtransadd(bsize, N(r), rowp[r], cols[r], weights[r], x[r], out0),
       x_ext |-> xe,
       trace |-> <<ZeroStmt, MemsetStmt,
                   Stmt("multtransadd", "offd", {"in", "x_ext"}, {"x_ext"}),
                   Stmt("beginReverse", "", {}, {}), DiagStmt("multtransadd"),
                   Stmt("endReverse", "", {}, {})>>]

\* body of BVecInterp::multTransposeAdd on rank r up to endReverse
MultTransposeAddRank(r, x, add, out, same) ==
  LET out0 == IF ~same THEN copyValues(out, add) ELSE out
      xe0 == Fill(bsize * num_ext_vars[r], RZero)
      xe == multtransadd(bsize, N(r), ext_rowp[r], ext_cols[r], ext_weights[r], x[r], xe0)
  IN  [out |-> multtransadd(bsize, N(r), rowp[r], cols[r], weights[r], x[r], out0),
       x_ext |-> xe,
       trace |-> (IF ~same THEN <<CopyStmt>> ELSE <<>>) \o
                 <<MemsetStmt, Stmt("multtransadd", "offd", {"in", "x_ext"}, {"x_ext"}),
                   Stmt("beginReverse", "", {}, {}), DiagStmt("multtransadd"),
                   Stmt("endReverse", "", {}, {})>>]

\* a product without the test of vecDist: every rank runs on
Unusable_NoGuard(op, x, add, outv, pre, first) ==
  /\ call' = [op |-> op, x |-> x, addVec |-> add, outVec |-> outv, pre |-> pre,
              post |-> [pre EXCEPT ![outv] = [r \in Ranks |-> first[r]]],
              halo |-> "none",
              reported |-> 0, trace |-> <<>>]
  /\ crashed' = TRUE
  /\ fwd' = NoFwd
  /\ UNCHANGED x_ext

\* A product called while vecDist is not a halo object.  A rank whose
\* vecDist is NULL prints the message and returns.  A rank whose vecDist is
\* an unassigned non-null pointer passes the guard, runs the statements
\* before the first use of vecDist or x_ext, leaving first[r] in the output
\* vector, and dies there.
Unusable(op, x, add, outv, pre, first) ==
  /\ call' = [op |-> op, x |-> x, addVec |-> add, outVec |-> outv, pre |-> pre,
              post |-> [pre EXCEPT ![outv] =
                          [r \in Ranks |-> IF vecDist[r] = NULL THEN pre[outv][r]
                                           ELSE first[r]]],
              halo |-> "none",
              reported |-> Cardinality({r \in Ranks : vecDist[r] = NULL}), trace |-> <<>>]
  /\ crashed' = \E r \in Ranks : vecDist[r] # NULL
  /\ fwd' = NoFwd
  /\ UNCHANGED x_ext

\* BVecInterp::mult(inVec, outVec) on every rank; outVec is the vector Y
Mult(x) ==
  LET pre == CallerVecs(outMap)
  IN  /\ ~crashed
      /\ IF Usable
         THEN \E res \in {[r \in Ranks |-> MultRank(r, x, pre.Y[r])]} :
                /\ call' = [op |-> "mult", x |-> x, addVec |-> "none", outVec |-> "Y",
                            pre |-> pre,
                            post |-> [pre EXCEPT !.Y = [r \in Ranks |-> res[r].out]],
                            halo |-> "forward", reported |-> 0,
                            trace |-> [r \in Ranks |-> res[r].trace]]
                /\ x_ext' = [r \in Ranks |-> res[r].x_ext]
                /\ fwd' = [set |-> TRUE, x |-> x, y |-> [r \in Ranks |-> res[r].out]]
                /\ UNCHANGED crashed
         ELSE Unusable("mult", x, "none", "Y", pre,
                       [r \in Ranks |-> zeroEntries(pre.Y[r])])
      /\ UNCHANGED <<cfgvars, probe, staging, onvars, offvars, vecDist, rowp, cols, weights,
                     ext_rowp, ext_cols, ext_weights, ext_vars, num_ext_vars, err,
                     quota, histvars>>

\* BVecInterp::multAdd(inVec, addVec, outVec) on every rank; outVec is Y and
\* addVec is Y or Z
MultAdd(x, add) ==
  LET pre == CallerVecs(outMap)
  IN  /\ ~crashed
      /\ IF Usable
         THEN \E res \in {[r \in Ranks |->
                             MultAddRank(r, x, pre[add][r], pre.Y[r], add = "Y")]} :
                /\ call' = [op |-> "multAdd", x |-> x, addVec |-> add, outVec |-> "Y",
                            pre |-> pre,
                            post |-> [pre EXCEPT !.Y = [r \in Ranks |-> res[r].out]],
                            halo |-> "forward", reported |-> 0,
                            trace |-> [r \in Ranks |-> res[r].trace]]
                /\ x_ext' = [r \in Ranks |-> res[r].x_ext]
                /\ fwd' = NoFwd
                /\ UNCHANGED crashed
         ELSE Unusable("multAdd", x, add, "Y", pre,
                       [r \in Ranks |-> IF add # "Y" THEN copyValues(pre.Y[r], pre[add][r])
                                         ELSE pre.Y[r]])
      /\ UNCHANGED <<cfgvars, probe, staging, onvars, offvars, vecDist, rowp, cols, weights,
                     ext_rowp, ext_cols, ext_weights, ext_vars, num_ext_vars, err,
                     quota, histvars>>

\* BVecInterp::multTranspose(inVec, outVec) on every rank; outVec is Y
\* multTranspose clearing ext_weights where the code clears x_ext
MultTranspose_ClearsOffd(x) ==
  LET pre == CallerVecs(inMap)
  IN  /\ ~crashed
      /\ IF Usable
         THEN \E res \in {[r \in Ranks |-> MultTransposeRank(r, x, pre.Y[r])]} :
                /\ call' = [op |-> "multTranspose", x |-> x, addVec |-> "none",
                            outVec |-> "Y", pre |-> pre,
                            post |-> [pre EXCEPT !.Y =
                                        [o \in Ranks |->
                                           ReverseAdd([r \in Ranks |-> res[r].x_ext],
                                                      res[o].out, o)]],
                            halo |-> "reverse", reported |-> 0,
                            trace |-> [r \in Ranks |-> res[r].trace]]
                /\ x_ext' = [r \in Ranks |-> res[r].x_ext]
                /\ ext_weights' = [r \in Ranks |-> Fill(Len(ext_weights[r]), RZero)]
                /\ UNCHANGED <<crashed, fwd>>
         ELSE /\ Unusable("multTranspose", x, "none", "Y", pre,
                          [r \in Ranks |-> zeroEntries(pre.Y[r])])
              /\ UNCHANGED ext_weights
      /\ UNCHANGED <<cfgvars, probe, staging, onvars, offvars, vecDist, rowp, cols, weights,
                     ext_rowp, ext_cols, ext_vars, num_ext_vars, err,
                     quota, histvars>>

MultTranspose(x) ==
  LET pre == CallerVecs(inMap)
  IN  /\ ~crashed
      /\ IF Usable
         THEN \E res \in {[r \in Ranks |-> MultTransposeRank(r, x, pre.Y[r])]} :
                /\ call' = [op |-> "multTranspose", x |-> x, addVec |-> "none",
                            outVec |-> "Y", pre |-> pre,
                            post |-> [pre EXCEPT !.Y =
                                        [o \in Ranks |->
                                           ReverseAdd([r \in Ranks |-> res[r].x_ext],
                                                      res[o].out, o)]],
                            halo |-> "reverse", reported |-> 0,
                            trace |-> [r \in Ranks |-> res[r].trace]]
                /\ x_ext' = [r \in Ranks |-> res[r].x_ext]
                /\ UNCHANGED <<crashed, fwd>>
         ELSE Unusable("multTranspose", x, "none", "Y", pre,
                       [r \in Ranks |-> zeroEntries(pre.Y[r])])
      /\ UNCHANGED <<cfgvars, probe, staging, onvars, offvars, vecDist, rowp, cols, weights,
                     ext_rowp, ext_cols, ext_weights, ext_vars, num_ext_vars, err,
                     quota, histvars>>

\* BVecInterp::multTransposeAdd(inVec, addVec, outVec) on every rank
MultTransposeAdd(x, add) ==
  LET pre == CallerVecs(inMap)
  IN  /\ ~crashed
      /\ IF Usable
         THEN \E res \in {[r \in Ranks |->
                             MultTransposeAddRank(r, x, pre[add][r], pre.Y[r], add = "Y")]} :
                /\ call' = [op |-> "multTransposeAdd", x |-> x, addVec |-> add,
                            outVec |-> "Y", pre |-> pre,
                            post |-> [pre EXCEPT !.Y =
                                        [o \in Ranks |->
                                           ReverseAdd([r \in Ranks |-> res[r].x_ext],
                                                      res[o].out, o)]],
                            halo |-> "reverse", reported |-> 0,
                            trace |-> [r \in Ranks |-> res[r].trace]]
                /\ x_ext' = [r \in Ranks |-> res[r].x_ext]
                /\ fwd' = NoFwd
                /\ UNCHANGED crashed
         ELSE Unusable("multTransposeAdd", x, add, "Y", pre,
                       [r \in Ranks |-> IF add # "Y" THEN copyValues(pre.Y[r], pre[add][r])
                                         ELSE pre.Y[r]])
      /\ UNCHANGED <<cfgvars, probe, staging, onvars, offvars, vecDist, rowp, cols, weights,
                     ext_rowp, ext_cols, ext_weights, ext_vars, num_ext_vars, err,
                     quota, histvars>>

\* 1e-12 is PrintTolRoot^-2; the square root keeps the products within int
PrintTolRoot == 1000000

\* the digits "%f" keeps after the point
PrintDigits == 1000000

\* fabs(weights[j]) > 1e-12 for the rational w: den < |num| * 10^12
Shown(w) == (w[2] \div PrintTolRoot) \div PrintTolRoot < Abs(w[1])

\* "%f" of the rational w, in units of 10^-6, rounded to nearest
FormatF(w) ==
  LET mag == (2 * Abs(w[1]) * PrintDigits + w[2]) \div (2 * w[2])
  IN  IF w[1] < 0 THEN -mag ELSE mag

\* the "(%d,%f) " items of the entries j..hi-1 of rank r
RECURSIVE PrintEntries(_, _, _)
PrintEntries(r, j, hi) ==
  IF j >= hi THEN <<>>
  ELSE (IF Shown(At(weights[r], j))
        THEN << <<At(cols[r], j), FormatF(At(weights[r], j))>> >>
        ELSE <<>>) \o PrintEntries(r, j + 1, hi)

\* the file rank r writes: the header and, per row, "Row: i" and its items
PrintFile(r) ==
  [opened |-> TRUE, header |-> "BVecInterp",
   rows |-> [q \in 1..N(r) |->
               [row |-> q - 1,
                items |-> PrintEntries(r, At(rowp[r], q - 1), At(rowp[r], q))]]]

NoFile == [opened |-> FALSE, header |-> "", rows |-> <<>>]

\* BVecInterp::printInterp(filename) on every rank.  fopen may fail on any
\* rank, and that rank then does nothing.  Before finalize rowp is NULL and
\* a rank with rows reads rowp[0] through it; on an operator whose
\* constructor returned early N and rowp are unassigned.
PrintInterp ==
  /\ ~crashed
  /\ \E ok \in [Ranks -> BOOLEAN] :
       IF Usable
       THEN /\ call' = [NoCall EXCEPT !.op = "printInterp"] @@
                       [file |-> [r \in Ranks |-> IF ok[r] THEN PrintFile(r) ELSE NoFile]]
            /\ UNCHANGED crashed
       ELSE \E dies \in {d \in BOOLEAN :
                           IF Constructed
                           THEN d = \E r \in Ranks : ok[r] /\ N(r) > 0
                           ELSE d => \E r \in Ranks : ok[r]} :
              /\ call' = [NoCall EXCEPT !.op = "printInterp"] @@
                         [file |-> [r \in Ranks |-> NoFile]]
              /\ crashed' = dies
  /\ UNCHANGED <<cfgvars, probe, staging, onvars, offvars, opvars, err, fwd, quota, histvars>>

PrintInterpCall == PrintInterp

MultCall == \E x \in XVecs(inMap) : Mult(x)

MultAddCall == \E x \in XVecs(inMap), add \in {"Y", "Z"} : MultAdd(x, add)

MultTransposeCall == \E x \in XVecs(outMap) : MultTranspose(x)

MultTransposeAddCall ==
  \E x \in XVecs(outMap), add \in {"Y", "Z"} : MultTransposeAdd(x, add)

Next == AddInterpCall \/ Finalize

Spec == Init /\ [][Next]_vars

NextApply ==
  \/ AddInterpCall
  \/ Finalize
  \/ MultCall
  \/ MultAddCall
  \/ MultTransposeCall
  \/ MultTransposeAddCall

SpecApply == InitApply /\ [][NextApply]_vars

\* one operator over two ranks, staged, finalised, applied and listed
FrameSetups == { <<VarMap(World2, 1, <<0, 1, 2>>), VarMap(Dup2, 1, <<0, 1, 2>>)>> }

InitFrame == InitWith(FrameSetups, MaxApplyEntries)

\* rows whose first weight is 1 and whose later weights are -1, so that
\* rows of sum zero and entries of weight zero occur
FrameRowArgs ==
  UNION { { [ivars |-> v, w |-> [q \in 1..k |-> IF q = 1 THEN RInt(1) ELSE RInt(-1)]]
            : v \in [1..k -> 0..(M_in - 1)] }
          : k \in 0..MaxFanIn }

AddInterpFrameCall ==
  \E r \in Ranks, num \in 0..(M_out - 1), a \in FrameRowArgs :
    AddInterp(r, num, a.w, a.ivars, Len(a.ivars))

NextFrame ==
  \/ AddInterpFrameCall
  \/ Finalize
  \/ MultCall
  \/ MultAddCall
  \/ MultTransposeCall
  \/ MultTransposeAddCall
  \/ PrintInterpCall

SpecFrame == InitFrame /\ [][NextFrame]_vars

SpecStruct == InitStruct /\ [][Next]_vars

NextRanks == AddInterpCall \/ Finalize \/ MultCall

SpecRanks == InitRanks /\ [][NextRanks]_vars

NextRange == AddInterpAnyCall \/ Finalize

\* ------------------------------------------- the CSR build on its own
\* two ranks, rank 0 owning output rows 0, 1 and inputs 0, 1, rank 1 owning
\* output row 2 and input 2
BuildSetups == { <<VarMap(World2, 1, <<0, 2, 3>>), VarMap(Dup2, 1, <<0, 2, 3>>)>> }

BuildNums == 0..2

\* a received row: its output variable and its input variables
BuildRows ==
  UNION { { [num |-> n, ivars |-> v] : n \in BuildNums, v \in [1..k -> BuildNums] }
          : k \in 0..MaxBuildFanIn }

\* The arrays a rank holds when the exchange has returned: any rows at all
\* in in_nums, in_weights_per_row and in_vars, whoever owns them, and
\* optionally one on-processor row.  The k-th received weight is k + 1.
BuildInputs ==
  { [op |-> "build input", r |-> r, rows |-> rows, on |-> on]
    : r \in {0, 1},
      rows \in UNION { [1..n -> BuildRows] : n \in 0..MaxBuildRows },
      on \in BOOLEAN }

RECURSIVE Flatten(_)
Flatten(ss) == IF ss = <<>> THEN <<>> ELSE Head(ss) \o Flatten(Tail(ss))

\* in_nums, in_weights_per_row, in_vars and in_weights holding rows, next
\* to the staging arrays of one owned row or of none
ReceivedArrays(r, rows, on) ==
  LET flat == Flatten([q \in 1..Len(rows) |-> rows[q].ivars])
  IN  [on_size |-> IF on THEN 1 ELSE 0,
       on_nums |-> IF on THEN <<At(outOwnerRange, r)>> ELSE <<>>,
       on_rowp |-> IF on THEN <<0, 2>> ELSE <<0>>,
       on_vars |-> IF on THEN <<2, 0>> ELSE <<>>,
       on_weights |-> IF on THEN <<RInt(1), RInt(1)>> ELSE <<>>,
       in_size |-> Len(rows),
       in_nums |-> [q \in 1..Len(rows) |-> rows[q].num],
       in_weights_per_row |-> [q \in 1..Len(rows) |-> Len(rows[q].ivars)],
       in_vars |-> flat,
       in_weights |-> [q \in 1..Len(flat) |-> RInt(q)]]

\* the three passes of the build run on rank probe.r over the arrays
BuildCall ==
  /\ probe.op = "build input"
  /\ probe' = [op |-> "build", r |-> probe.r, rows |-> probe.rows, on |-> probe.on,
               csr |-> BuildCSR(probe.r, ReceivedArrays(probe.r, probe.rows, probe.on))]
  /\ UNCHANGED <<cfgvars, staging, onvars, offvars, opvars, err, crashed, callvars,
                 quota, histvars>>

InitBuild == \E pr \in BuildInputs : InitProbe(BuildSetups, 0, pr)

NextBuild == BuildCall

SpecBuild == InitBuild /\ [][NextBuild]_vars

InitKernel == \E pr \in KernelInputs : InitProbe(RangeSetups, 0, pr)

NextKernel == KernelCall

SpecKernel == InitKernel /\ [][NextKernel]_vars

SpecRange == InitRange /\ [][NextRange]_vars


\* ------------------------------------------------- what the claims refer to
\* the global output index of local row i of rank r
OutGlobal(r, i) == At(outOwnerRange, r) + i

LocalRows(r) == 0..(N(r) - 1)

InGlobals == 0..(M_in - 1)

\* the weight one staged row gives to input variable g
RowWeightOn(row, g) ==
  RSumSeq([k \in 1..Len(row.ivars) |-> IF row.ivars[k] = g THEN row.w[k] ELSE RZero])

RECURSIVE StagedSumOver(_, _, _)
StagedSumOver(S, num, g) ==
  IF S = {} THEN RZero
  ELSE LET row == CHOOSE x \in S : TRUE
       IN  RAdd(IF row.num = num
                THEN RMul(RInt(staged[row]), RowWeightOn(row, g))
                ELSE RZero,
                StagedSumOver(S \ {row}, num, g))

\* the sum of the weights of all staged (num, g) contributions
StagedSum(num, g) == StagedSumOver(DOMAIN staged, num, g)

HasContribution(num, g) ==
  \E row \in DOMAIN staged : row.num = num /\ \E k \in 1..Len(row.ivars) : row.ivars[k] = g

StagedRowSum(num) == RSumSeq([q \in 1..M_in |-> StagedSum(num, q - 1)])

\* the places of input variable g in row i of the diag and of the offd part
DiagPos(r, i, g) ==
  {j \in At(rowp[r], i)..(At(rowp[r], i + 1) - 1) : At(cols[r], j) + At(inOwnerRange, r) = g}

OffdPos(r, i, g) ==
  {j \in At(ext_rowp[r], i)..(At(ext_rowp[r], i + 1) - 1) :
     At(ext_vars[r], At(ext_cols[r], j)) = g}

RECURSIVE RSumAt(_, _)
RSumAt(a, J) ==
  IF J = {} THEN RZero
  ELSE LET j == CHOOSE x \in J : TRUE IN RAdd(At(a, j), RSumAt(a, J \ {j}))

\* entry (i, g) of the operator of rank r, before and after normalisation
RawEntry(r, i, g) ==
  RAdd(RSumAt(unnormalized[r].weights, DiagPos(r, i, g)),
       RSumAt(unnormalized[r].ext_weights, OffdPos(r, i, g)))

PEntry(r, i, g) ==
  RAdd(RSumAt(weights[r], DiagPos(r, i, g)), RSumAt(ext_weights[r], OffdPos(r, i, g)))

FinalRowSum(r, i) ==
  RowSum([rowp |-> rowp[r], weights |-> weights[r],
          ext_rowp |-> ext_rowp[r], ext_weights |-> ext_weights[r]], i)

\* the rows an incoming record holds, as a bag of [num, ivars, w]
IncomingRow(in, i) ==
  LET k == SumSeq(Slice(in.in_weights_per_row, 0, i))
      n == At(in.in_weights_per_row, i)
  IN  [num |-> At(in.in_nums, i), ivars |-> Slice(in.in_vars, k, k + n),
       w |-> Slice(in.in_weights, k, k + n)]

IncomingBag(in) ==
  LET rows == {IncomingRow(in, i) : i \in 0..(in.in_size - 1)}
  IN  [x \in rows |-> Cardinality({i \in 0..(in.in_size - 1) : IncomingRow(in, i) = x})]

\* the rows staged on other ranks whose output index rank s owns
SentTo(s) ==
  LET src == {row \in DOMAIN staged : row.rank # s /\ OwnsOut(s, row.num)}
      body(row) == [num |-> row.num, ivars |-> row.ivars, w |-> row.w]
      rows == {body(row) : row \in src}
  IN  [x \in rows |->
         SumSeq([q \in 1..mpiSize |->
                   LET full == [rank |-> q - 1, num |-> x.num, size |-> Len(x.ivars),
                                ivars |-> x.ivars, w |-> x.w]
                   IN  IF full \in src THEN staged[full] ELSE 0])]

\* component k of global variable g of a distributed vector over map
GlobalAt(v, map, g, k) ==
  LET o == findInterval(g, map.ownerRange, mpiSize + 1)
  IN  At(v[o], map.bsize * (g - At(map.ownerRange, o)) + k)

\* P x and P^T x written out entry by entry from the operator's matrix
RefMult(x) ==
  [r \in Ranks |->
     [q \in 1..LocalDim(outMap, r) |->
        LET i == (q - 1) \div bsize
            k == (q - 1) % bsize
        IN  RSumSeq([t \in 1..M_in |->
                       RMul(PEntry(r, i, t - 1), GlobalAt(x, inMap, t - 1, k))])]]

RowTerms(x, g, k, r) ==
  RSumSeq([t \in 1..N(r) |-> RMul(PEntry(r, t - 1, g), At(x[r], bsize * (t - 1) + k))])

RefMultTranspose(x) ==
  [o \in Ranks |->
     [q \in 1..LocalDim(inMap, o) |->
        LET g == At(inOwnerRange, o) + ((q - 1) \div bsize)
            k == (q - 1) % bsize
        IN  RSumSeq([t \in 1..mpiSize |-> RowTerms(x, g, k, t - 1)])]]

VecAdd(u, v) == [r \in Ranks |-> [q \in 1..Len(u[r]) |-> RAdd(u[r][q], v[r][q])]]

\* the global inner product of two distributed vectors
Dot(u, v) ==
  RSumSeq([t \in 1..mpiSize |->
             RSumSeq([q \in 1..Len(u[t - 1]) |-> RMul(u[t - 1][q], v[t - 1][q])])])

\* some row of some rank has a local and a remote input
MixedRow ==
  \E r \in Ranks : \E i \in LocalRows(r) :
    /\ At(rowp[r], i + 1) > At(rowp[r], i)
    /\ At(ext_rowp[r], i + 1) > At(ext_rowp[r], i)

EmptyRow ==
  \E r \in Ranks : \E i \in LocalRows(r) :
    /\ At(rowp[r], i + 1) = At(rowp[r], i)
    /\ At(ext_rowp[r], i + 1) = At(ext_rowp[r], i)

\* ------------------------------------------------------------------ claims
\* C1: after the collective finalize every rank has received exactly the
\* rows staged on other ranks whose output index it owns, each as often as
\* it was staged, and discarded none; so every staged row reaches the
\* operator of its owner once and no other rank's.
C1_Redistribution ==
  Usable =>
    /\ \A s \in Ranks : IncomingBag(incoming[s]) = SentTo(s)
    /\ err.range = 0

\* one rank received the same row from two other ranks
C1_Witness ==
  /\ Usable
  /\ \E s \in Ranks : \E x \in DOMAIN SentTo(s) :
       /\ SentTo(s)[x] = 2
       /\ Len(x.ivars) = 1
       /\ \E a, b \in DOMAIN staged : a.rank # b.rank /\ a.num = x.num /\ b.num = x.num

\* C2: in the finalised operator every input variable g occupies at most
\* one column of an owned row, it occupies one exactly when a contribution
\* (num, g) was staged, and its weight before normalisation is the sum of
\* the weights of all staged (num, g) contributions.
C2_DuplicatesSummed ==
  Usable =>
    \A r \in Ranks : \A i \in LocalRows(r) : \A g \in InGlobals :
      /\ Cardinality(DiagPos(r, i, g)) + Cardinality(OffdPos(r, i, g)) <= 1
      /\ (Cardinality(DiagPos(r, i, g)) + Cardinality(OffdPos(r, i, g)) = 1)
           <=> HasContribution(OutGlobal(r, i), g)
      /\ RawEntry(r, i, g) = StagedSum(OutGlobal(r, i), g)

\* duplicates inside one call and across two senders, summing to 3
C2_Witness ==
  /\ Usable
  /\ \E r \in Ranks : \E i \in LocalRows(r) : \E g \in InGlobals :
       /\ RawEntry(r, i, g) = RInt(3)
       /\ \E a, b \in DOMAIN staged :
            /\ a.rank # b.rank
            /\ a.num = OutGlobal(r, i) /\ b.num = OutGlobal(r, i)
            /\ Cardinality({k \in 1..Len(a.ivars) : a.ivars[k] = g}) = 2
            /\ \E k \in 1..Len(b.ivars) : b.ivars[k] = g

\* C3 as stated: the weights of every owned row sum to 0 or 1, and to 0
\* only when the row received no contribution.
C3_Original ==
  Usable =>
    \A r \in Ranks : \A i \in LocalRows(r) :
      /\ FinalRowSum(r, i) \in {RZero, RInt(1)}
      /\ FinalRowSum(r, i) = RZero =>
           ~\E g \in InGlobals : HasContribution(OutGlobal(r, i), g)

\* C3 amended: the weights of every owned row sum to 0 or 1, and to 0
\* exactly when the staged weights of the row sum to zero (as they do for a
\* row without contributions).
C3_RowSums ==
  Usable =>
    \A r \in Ranks : \A i \in LocalRows(r) :
      FinalRowSum(r, i) = IF StagedRowSum(OutGlobal(r, i)) = RZero THEN RZero ELSE RInt(1)

\* a row normalised over a local and a remote input, next to an empty row
C3_Witness ==
  /\ Usable
  /\ \E r \in Ranks : \E i \in LocalRows(r) :
       /\ FinalRowSum(r, i) = RInt(1)
       /\ StagedRowSum(OutGlobal(r, i)) \notin {RZero, RInt(1)}
       /\ At(rowp[r], i + 1) > At(rowp[r], i)
       /\ At(ext_rowp[r], i + 1) > At(ext_rowp[r], i)
  /\ \E r \in Ranks : \E i \in LocalRows(r) :
       /\ FinalRowSum(r, i) = RZero
       /\ ~\E g \in InGlobals : HasContribution(OutGlobal(r, i), g)

\* C4: mult on a finalised operator leaves in outVec, for every owned row
\* and block component, the sum over all input variables of P[i,g] times
\* the component of x, whatever outVec held before.
C4_Mult ==
  (call.op = "mult" /\ call.halo = "forward") => call.post.Y = RefMult(call.x)

\* mult over a row with a local and a remote input next to an empty row
C4_Witness ==
  /\ call.op = "mult" /\ call.halo = "forward"
  /\ MixedRow
  /\ EmptyRow
  /\ \E r \in Ranks : \E q \in 1..Len(call.post.Y[r]) :
       call.post.Y[r][q] \notin {RZero, call.pre.Y[r][q]}

C6_WitnessAlias ==
  /\ call.op = "multAdd" /\ call.halo = "forward"
  /\ call.addVec = call.outVec
  /\ MixedRow
  /\ call.post.Y # call.pre.Y

\* C7: a product called on a constructed operator before finalize prints
\* the message on every rank, starts no halo exchange and changes neither
\* the output vector nor the staged rows.
C7_BeforeFinalize ==
  [][(Constructed /\ ~Usable /\ (MultCall \/ MultAddCall \/ MultTransposeCall
                                   \/ MultTransposeAddCall))
       => /\ call'.reported = mpiSize
          /\ call'.halo = "none"
          /\ call'.post = call'.pre
          /\ ~crashed'
          /\ UNCHANGED <<staging, onvars, offvars, opvars, staged>>]_vars

C7_Witness ==
  /\ Constructed /\ ~Usable
  /\ call.op = "multTranspose" /\ call.reported = mpiSize
  /\ staged # EmptyBag

\* C8 as stated: finalize called on a finalised operator returns and
\* leaves diag, offd and the external variable table as they were.
C8_SecondFinalize ==
  [][(Usable /\ Finalize) => (~crashed' /\ UNCHANGED opvars)]_vars

\* C9 as stated: addInterp called on a finalised operator returns and
\* leaves the operator and the released staging buffers as they were.
C9_AddAfterFinalize ==
  [][(Usable /\ AddInterpCall)
       => (~crashed' /\ UNCHANGED <<opvars, staging, onvars, offvars>>)]_vars

\* C10 as stated: when the constructor reported differing block sizes or
\* incompatible communicators, every product call is rejected on every
\* rank and leaves the output vector unchanged.
C10_FailedConstruction ==
  (~Constructed /\ call.op # "none") =>
    /\ err.construct = mpiSize
    /\ call.reported = mpiSize
    /\ call.post = call.pre
    /\ ~crashed

\* the addInterp calls made with size < 0 or a row number outside [0, M_out)
BadCalls == {row \in DOMAIN staged : row.size < 0 \/ row.num < 0 \/ row.num >= M_out}

\* C11 as stated: a call with negative size or a row number out of range is
\* reported, the run never dies of it, and finalize builds on every rank
\* the operator of the other calls: every entry holds the summed weights of
\* the well-formed contributions to it and no other entry exists.
C11_BadRowDiscarded ==
  (BadCalls # {} /\ (Usable \/ crashed)) =>
    /\ ~crashed
    /\ err.range >= Cardinality(BadCalls)
    /\ \A r \in Ranks : \A i \in LocalRows(r) : \A g \in (-1)..M_in :
         /\ (Cardinality(DiagPos(r, i, g)) + Cardinality(OffdPos(r, i, g)) = 1)
              <=> HasContribution(OutGlobal(r, i), g)
         /\ RawEntry(r, i, g) = StagedSum(OutGlobal(r, i), g)

\* C12 as stated: after finalize every entry of the external variable table
\* is an input variable in [0, M_in) that the rank does not own, and every
\* diag column is a local index in [0, nIn).
C12_InputRangeKept ==
  Usable =>
    \A r \in Ranks :
      /\ \A e \in 1..Len(ext_vars[r]) :
           /\ ext_vars[r][e] >= 0 /\ ext_vars[r][e] < M_in
           /\ ~OwnsIn(r, ext_vars[r][e])
      /\ \A j \in 1..Len(cols[r]) :
           /\ cols[r][j] >= 0
           /\ cols[r][j] < At(inOwnerRange, r + 1) - At(inOwnerRange, r)

\* the input variables outside rank r's range named by the staged rows of
\* the output rows r owns
RemoteInputs(r) ==
  {g \in InGlobals : ~OwnsIn(r, g) /\ \E i \in LocalRows(r) : HasContribution(OutGlobal(r, i), g)}

\* C13: after finalize the external variable table is strictly increasing,
\* holds exactly the non-local input variables the rank's rows refer to,
\* every offd column is a position of the table and every position is the
\* column of some offd entry.
C13_ExtIdx ==
  Usable =>
    \A r \in Ranks :
      /\ num_ext_vars[r] = Len(ext_vars[r])
      /\ \A e \in 1..(Len(ext_vars[r]) - 1) : ext_vars[r][e] < ext_vars[r][e + 1]
      /\ {ext_vars[r][e] : e \in 1..Len(ext_vars[r])} = RemoteInputs(r)
      /\ \A j \in 1..Len(ext_cols[r]) :
           ext_cols[r][j] >= 0 /\ ext_cols[r][j] < num_ext_vars[r]
      /\ \A e \in 0..(num_ext_vars[r] - 1) :
           \E j \in 1..Len(ext_cols[r]) : ext_cols[r][j] = e

\* a rank with two external variables that were staged in descending order
C13_Witness ==
  /\ Usable
  /\ \E r \in Ranks :
       /\ num_ext_vars[r] = 2
       /\ \E row \in DOMAIN staged :
            /\ OwnsOut(r, row.num)
            /\ Len(row.ivars) = 2
            /\ row.ivars[1] > row.ivars[2]
            /\ ~OwnsIn(r, row.ivars[1]) /\ ~OwnsIn(r, row.ivars[2])

\* the columns of row i of a CSR part are strictly ascending
RowAscending(p, c, i) ==
  \A j \in At(p, i)..(At(p, i + 1) - 2) : At(c, j) < At(c, j + 1)

\* C14: after finalize every row of diag (local column indices) and every
\* row of offd (positions in the external variable table) is strictly
\* ascending by column, so no column occurs twice in a row.
C14_RowsSorted ==
  Usable =>
    \A r \in Ranks : \A i \in LocalRows(r) :
      /\ RowAscending(rowp[r], cols[r], i)
      /\ RowAscending(ext_rowp[r], ext_cols[r], i)

\* a diag row of two columns that were staged in descending order, one of
\* them a second time by another call, next to a row with an offd column
C14_Witness ==
  /\ Usable
  /\ \E r \in Ranks : \E i \in LocalRows(r) :
       /\ At(rowp[r], i + 1) - At(rowp[r], i) = 2
       /\ \E row, dup \in DOMAIN staged :
            /\ row.num = OutGlobal(r, i) /\ Len(row.ivars) = 2
            /\ row.ivars[1] > row.ivars[2]
            /\ dup.num = OutGlobal(r, i) /\ dup.rank # row.rank
            /\ dup.ivars = <<row.ivars[1]>>

\* C15: for each block size in {1,2,3,5,6} the multAdd kernel selected for
\* it leaves the same y as the generic multAdd kernel called with that
\* block size on the same rowp, cols, w, x and initial y, and so does the
\* selected multTransposeAdd kernel against the generic one.
C15_KernelsAgree ==
  probe.op = "kernel" =>
    /\ probe.selected = probe.generic
    /\ probe.selectedT = probe.genericT

\* block size 3, two entries in one row on different columns after an
\* empty row, and a result that differs from the initial y
C15_Witness ==
  /\ probe.op = "kernel"
  /\ probe.b = 3
  /\ probe.m.nrows = 2
  /\ probe.m.rowp = <<0, 0, 2>>
  /\ probe.m.cols = <<1, 0>>
  /\ probe.selected # probe.y
  /\ probe.selectedT # probe.yt

\* Entry (o, g) of the operator as the set of contributions alone fixes it:
\* the summed weights of the (o, g) contributions over the summed weights of
\* row o, or the summed weights themselves when row o sums to zero.  Neither
\* the number of ranks nor the partitions nor the calling ranks enter.
GlobalP(o, g) ==
  IF StagedRowSum(o) = RZero THEN StagedSum(o, g)
  ELSE RDiv(StagedSum(o, g), StagedRowSum(o))

\* C16: the gathered global output of mult is the product of the matrix
\* GlobalP with the global input vector, for every number of ranks, every
\* pair of partitions and every choice of calling ranks; two runs with the
\* same contributions and the same global input therefore agree.
C16_RankIndependent ==
  (call.op = "mult" /\ call.halo = "forward") =>
    \A o \in 0..(M_out - 1) : \A k \in 0..(bsize - 1) :
      GlobalAt(call.post.Y, outMap, o, k) =
        RSumSeq([t \in 1..M_in |-> RMul(GlobalP(o, t - 1), GlobalAt(call.x, inMap, t - 1, k))])

\* three ranks, a row staged by two ranks, one of them not its owner, with
\* a local and a remote input, and an output that is neither zero nor what
\* the vector held before
C16_Witness ==
  /\ call.op = "mult" /\ call.halo = "forward"
  /\ mpiSize = 3
  /\ \E a, b \in DOMAIN staged :
       /\ a.rank # b.rank /\ a.num = b.num /\ ~OwnsOut(a.rank, a.num)
       /\ a.ivars # <<>> /\ b.ivars # <<>> /\ a.ivars # b.ivars
       /\ GlobalAt(call.post.Y, outMap, a.num, 0)
            \notin {RZero, GlobalAt(call.pre.Y, outMap, a.num, 0)}

\* the positions of the statements of trace t that call f
StmtPos(t, f) == {q \in 1..Len(t) : t[q].stmt = f}

\* t has one begin and one later end; strictly between them only the
\* diagonal kernel runs and nothing reads or writes x_ext
Overlapped(t, begin, end) ==
  /\ Cardinality(StmtPos(t, begin)) = 1
  /\ Cardinality(StmtPos(t, end)) = 1
  /\ \A bq \in StmtPos(t, begin) : \A eq \in StmtPos(t, end) :
       /\ bq < eq
       /\ \E q \in (bq + 1)..(eq - 1) : t[q].part = "diag"
       /\ \A q \in (bq + 1)..(eq - 1) :
            /\ t[q].part = "diag"
            /\ "x_ext" \notin (t[q].reads \cup t[q].writes)

\* C17: in every product on a finalised operator, on every rank, the
\* diagonal kernel and nothing else runs between the begin and the end of
\* the halo exchange and x_ext is left alone there; in the forward products
\* x_ext is read only after endForward and only by the off-diagonal kernel,
\* in the transposed ones it is written only before beginReverse, by the
\* memset and then the off-diagonal kernel.
C17_Overlap ==
  /\ call.halo = "forward" =>
       \A r \in Ranks :
         LET t == call.trace[r] IN
         /\ Overlapped(t, "beginForward", "endForward")
         /\ \A q \in 1..Len(t) :
              "x_ext" \in (t[q].reads \cup t[q].writes) =>
                /\ t[q].part = "offd"
                /\ \A eq \in StmtPos(t, "endForward") : eq < q
  /\ call.halo = "reverse" =>
       \A r \in Ranks :
         LET t == call.trace[r] IN
         /\ Overlapped(t, "beginReverse", "endReverse")
         /\ \A q \in 1..Len(t) :
              "x_ext" \in (t[q].reads \cup t[q].writes) =>
                /\ t[q].stmt = "memset" \/ t[q].part = "offd"
                /\ \A bq \in StmtPos(t, "beginReverse") : q < bq
         /\ \E q \in StmtPos(t, "memset") : \E o \in 1..Len(t) :
              t[o].part = "offd" /\ q < o

\* a forward product and then a transposed one over an operator with an
\* off-diagonal part, the second leaving a non-zero halo buffer
C17_Witness ==
  /\ call.op = "multTransposeAdd" /\ call.halo = "reverse"
  /\ call.addVec = call.outVec
  /\ MixedRow
  /\ \E r \in Ranks : \E q \in 1..Len(x_ext[r]) : x_ext[r][q] # RZero
  /\ \A r \in Ranks : Len(call.trace[r]) = 5

\* the collectives of rank s that call f, by position
CollectivePos(s, f) == {q \in 1..Len(incoming[s].mpi) : incoming[s].mpi[q].call = f}

\* the send buffers of the MPI_Alltoallv calls of rank s, in order
TransferOrder(s) ==
  LET m == incoming[s].mpi
      RECURSIVE pick(_)
      pick(q) == IF q > Len(m) THEN <<>>
                 ELSE IF m[q].call = "MPI_Alltoallv" THEN <<m[q].sendbuf>> \o pick(q + 1)
                 ELSE pick(q + 1)
  IN  pick(1)

\* the four transfers follow every all-to-all, in the order row output
\* indices, per-row fan-in counts, input indices, weights, and the rank
\* makes no other collective call
FourTransfersLast(s) ==
  /\ TransferOrder(s) = <<"tmp_nums", "tmp_weights_per_row", "tmp_vars", "tmp_weights">>
  /\ \A a \in CollectivePos(s, "MPI_Alltoall") : \A v \in CollectivePos(s, "MPI_Alltoallv") : a < v
  /\ CollectivePos(s, "MPI_Alltoall") \cup CollectivePos(s, "MPI_Alltoallv")
       = 1..Len(incoming[s].mpi)

\* C18 as stated: a finalize that returned made, on every rank, exactly one
\* all-to-all of counts and then the four all-to-all-v transfers, nothing
\* else.
C18_OneCountExchange ==
  Usable => \A s \in Ranks :
              /\ Cardinality(CollectivePos(s, "MPI_Alltoall")) = 1
              /\ FourTransfersLast(s)

\* C18 amended: a finalize that returned made, on every rank and whatever
\* the rank staged, two all-to-alls of counts (rows per destination, then
\* entries per destination) and then the four all-to-all-v transfers, in
\* the same order on all ranks, and no other collective in its own body.
C18_TwoCountExchanges ==
  Usable => \A s \in Ranks :
              /\ \E a, b \in CollectivePos(s, "MPI_Alltoall") :
                   /\ a < b
                   /\ CollectivePos(s, "MPI_Alltoall") = {a, b}
                   /\ incoming[s].mpi[a].sendbuf = "tmp_count"
                   /\ incoming[s].mpi[b].sendbuf = "tmp_weights_count"
              /\ FourTransfersLast(s)
              /\ incoming[s].mpi = incoming[0].mpi

\* a finalize that returned where one rank staged no off-processor row and
\* another staged two
C18_Witness ==
  /\ Usable
  /\ \E a, b \in Ranks :
       /\ \A row \in DOMAIN staged : row.rank = a => OwnsOut(a, row.num)
       /\ \E s \in Ranks : \E x \in DOMAIN SentTo(s) :
            \E row \in DOMAIN staged :
              /\ row.rank = b /\ row.num = x.num /\ ~OwnsOut(b, row.num)
              /\ staged[row] >= 2
       /\ Len(incoming[a].mpi) = 6

\* the rows of a received sequence that the rank owns, in order
RECURSIVE OwnedRows(_, _)
OwnedRows(r, rows) ==
  IF rows = <<>> THEN <<>>
  ELSE IF OwnsOut(r, Head(rows).num)
       THEN <<Head(rows)>> \o OwnedRows(r, Tail(rows))
       ELSE OwnedRows(r, Tail(rows))

\* the received weights, by row, as the sender laid them out
RowWeights(rows) ==
  LET ptr == PtrFromCount([q \in 1..Len(rows) |-> Len(rows[q].ivars)])
  IN  [q \in 1..Len(rows) |-> [j \in 1..Len(rows[q].ivars) |-> RInt(At(ptr, q - 1) + j)]]

\* the received arrays with the rows of other owners taken out, every
\* remaining row keeping its own weights
CleanArrays(r, rows, on) ==
  LET keep == {q \in 1..Len(rows) : OwnsOut(r, rows[q].num)}
      RECURSIVE ws(_)
      ws(q) == IF q > Len(rows) THEN <<>>
               ELSE IF q \in keep THEN RowWeights(rows)[q] \o ws(q + 1) ELSE ws(q + 1)
  IN  [ReceivedArrays(r, OwnedRows(r, rows), on) EXCEPT !.in_weights = ws(1)]

\* C19: the build over received arrays that hold rows of other owners
\* returns, and returns the diag, offd and extIdx it returns over the same
\* arrays without those rows, counting one error per such row.
C19_MisroutedDropped ==
  probe.op = "build" =>
    LET clean == BuildCSR(probe.r, CleanArrays(probe.r, probe.rows, probe.on))
        bad == {q \in 1..Len(probe.rows) : ~OwnsOut(probe.r, probe.rows[q].num)}
    IN  /\ probe.csr.rowp = clean.rowp
        /\ probe.csr.cols = clean.cols
        /\ probe.csr.weights = clean.weights
        /\ probe.csr.ext_rowp = clean.ext_rowp
        /\ probe.csr.ext_cols = clean.ext_cols
        /\ probe.csr.ext_weights = clean.ext_weights
        /\ probe.csr.ext_vars = clean.ext_vars
        /\ probe.csr.num_ext_vars = clean.num_ext_vars
        /\ probe.csr.nerr = Cardinality(bad)
        /\ clean.nerr = 0

\* a misrouted row of two entries received ahead of an owned row with a
\* local and an external entry, next to an on-processor row
C19_Witness ==
  /\ probe.op = "build"
  /\ probe.on
  /\ Len(probe.rows) = 2
  /\ ~OwnsOut(probe.r, probe.rows[1].num) /\ Len(probe.rows[1].ivars) = 2
  /\ OwnsOut(probe.r, probe.rows[2].num)
  /\ \E a, b \in 1..Len(probe.rows[2].ivars) :
       OwnsIn(probe.r, probe.rows[2].ivars[a]) /\ ~OwnsIn(probe.r, probe.rows[2].ivars[b])
  /\ probe.csr.nerr = 1
  /\ probe.csr.num_ext_vars >= 1

\* C20: on a finalised operator every product call and every printInterp
\* call leaves rowp, cols, weights, ext_rowp, ext_cols, ext_weights and the
\* external variable table as they were.
C20_OperatorFrozen ==
  [][(Usable /\ (\/ MultCall
                 \/ MultAddCall
                 \/ MultTransposeCall
                 \/ MultTransposeAddCall
                 \/ PrintInterpCall))
       => UNCHANGED <<rowp, cols, weights, ext_rowp, ext_cols, ext_weights,
                      ext_vars, num_ext_vars>>]_vars

\* a listing written after a forward product over an operator with an
\* off-diagonal part, one rank at least listing a diagonal entry
C20_Witness ==
  /\ Usable /\ MixedRow
  /\ call.op = "printInterp" /\ fwd.set
  /\ \E r \in Ranks : /\ call.file[r].opened
                      /\ \E q \in 1..Len(call.file[r].rows) : call.file[r].rows[q].items # <<>>
  /\ \E r \in Ranks : \E q \in 1..Len(ext_weights[r]) : ext_weights[r][q] # RZero

\* the rows of in_nums and the entries of in_vars of receiver s that lie
\* in the block of sender r
BlockRows(s, r) ==
  LET ptr == PtrFromCount(incoming[s].in_count)
  IN  {q \in 1..Len(incoming[s].in_nums) : At(ptr, r) < q /\ q <= At(ptr, r + 1)}

BlockEntries(s, r) ==
  LET ptr == PtrFromCount(incoming[s].in_weights_count)
  IN  {q \in 1..Len(incoming[s].in_vars) : At(ptr, r) < q /\ q <= At(ptr, r + 1)}

\* C21: after a finalize that returned, for every sender r and receiver s
\* the rows and the entries s received from r are as many as r packed for
\* s; on every receiver the received per-row counts are non-negative and
\* add up to the number of received entries, and k, which only grows, ends
\* each of the three build passes at the end of in_vars and in_weights.
C21_CountsAgree ==
  Usable =>
    /\ \A r, s \in Ranks :
         /\ At(incoming[s].in_count, r) = At(tally[r].packed, s)
         /\ At(incoming[s].in_weights_count, r) = At(tally[r].packed_weights, s)
         /\ Cardinality(BlockRows(s, r)) = At(tally[r].packed, s)
         /\ Cardinality(BlockEntries(s, r)) = At(tally[r].packed_weights, s)
    /\ \A s \in Ranks :
         /\ Len(incoming[s].in_nums) = incoming[s].in_size
         /\ Len(incoming[s].in_weights_per_row) = incoming[s].in_size
         /\ Len(incoming[s].in_weights) = Len(incoming[s].in_vars)
         /\ \A q \in 1..incoming[s].in_size : incoming[s].in_weights_per_row[q] >= 0
         /\ SumSeq(incoming[s].in_weights_per_row) = Len(incoming[s].in_vars)
         /\ \A pass \in 1..3 : tally[s].k[pass] = Len(incoming[s].in_vars)

\* a finalize after which one rank has received from another an empty row
\* and a row of two entries
C21_Witness ==
  /\ Usable
  /\ \E r, s \in Ranks :
       /\ r # s
       /\ At(tally[r].packed, s) = 2
       /\ At(tally[r].packed_weights, s) = 2
       /\ \E q \in BlockRows(s, r) : incoming[s].in_weights_per_row[q] = 0
       /\ tally[s].k = <<2, 2, 2>>

====
